---- MODULE Spec2Model ----
(***************************************************************************)
(* Score ledger and lock coordinator of the litmusEU scoring application:  *)
(* the tabulator score-entry handler, the judge ballot handler and the     *)
(* administrative operations that change the judge set and the active      *)
(* event.  Two specifications are given: Spec runs every request handler   *)
(* as one step (requests do not overlap); ConcSpec splits the scoring      *)
(* handlers at the point where their reads end and their writes are        *)
(* committed, so that two requests can overlap.                            *)
(***************************************************************************)
EXTENDS Integers, Sequences, FiniteSets, Bags, TLC

----------------------------------------------------------------------------
(* Bounds of the model *)

NumJudges == 3
MaxEvents == 2
MaxInput == 3
MaxOps == 2
MaxAdminOps == 2
MaxSessions == 2
MaxConcOps == 3

----------------------------------------------------------------------------
(* Static set-up data: competitions, contestants and criteria are created  *)
(* by the administrative pages and stay fixed here.                        *)

Competitions == {1, 2}
JudgeIds == 1 .. NumJudges
ScoreInputs == (-1) .. MaxInput

\* Contestant rows: id |-> competition_id (ids are in name order)
Contestant == [x \in 1 .. 2 |-> x]

\* Criteria rows: id |-> [competition_id, max_score, weight] (ids are in name
\* order)
Criteria == [k \in 1 .. 3 |->
               IF k = 1 THEN [competition_id |-> 1, max_score |-> 1, weight |-> 60]
               ELSE IF k = 2 THEN [competition_id |-> 1, max_score |-> 2, weight |-> 40]
               ELSE [competition_id |-> 2, max_score |-> 1, weight |-> 100]]

NoJudge == [competition_id |-> 0, competitions |-> {}]

VARIABLES
  judges,     \* Judge table with the judge_competitions links of each row
  events,     \* Event table: sequence of statuses, index = event id
  scores,     \* Score table: a bag of rows
  req,        \* the request handled by the last step
  resp,       \* its outcome
  sessions,   \* requests that have read but not yet committed (ConcSpec)
  lock_committed, \* contestants <<event, competition, contestant>> for which
                  \* a tabulator lock request has committed
  nops,       \* number of scoring requests that got past their checks
  nadmin,     \* number of administrative requests handled
  contestant_rows, \* Contestant table as the result views read it
  criteria_rows,   \* Criteria table as the result views read it
  results_rows,    \* the rows computed by the last results request
  judge_breakdown, \* the judge breakdown built by the last scoring or
                   \* history request
  report,          \* the page laid out by the last PDF request
  layout           \* the loop of the layout engine that is running

\* what the result views read and produce
views == <<contestant_rows, criteria_rows, results_rows, judge_breakdown,
          report, layout>>

vars == <<judges, events, scores, req, resp, sessions, lock_committed,
          nops, nadmin, views>>

----------------------------------------------------------------------------
(* Queries *)

\* Contestant.query.filter_by(competition_id=c)
contestants(c) == {x \in DOMAIN Contestant : Contestant[x] = c}

\* Criteria.query.filter_by(competition_id=c).order_by(Criteria.name)
criteria_items(c) == {k \in DOMAIN Criteria : Criteria[k].competition_id = c}

\* Event.query.filter_by(status="active").first()
get_active_event(ev) == CHOOSE e \in DOMAIN ev : ev[e] = "active"

\* Judges linked to competition c by the legacy column or by the link table
competition_judges_query(J, c) ==
  {j \in DOMAIN J : J[j] # NoJudge /\
                    (J[j].competition_id = c \/ c \in J[j].competitions)}

\* Judge.query.outerjoin(judge_competitions, ...): one row <<judge, link>> per
\* link of the judge, one row with link 0 (NULL) for a judge without links
judge_outerjoin(J) ==
  {p \in {j \in DOMAIN J : J[j] # NoJudge} \X (Competitions \cup {0}) :
     \/ p[2] \in J[p[1]].competitions
     \/ p[2] = 0 /\ J[p[1]].competitions = {}}

\* .filter((Judge.competition_id == c) | (judge_competitions.c.competition_id
\* == c)): the Judge rows selected, one copy per join row that passes
judge_filter(J, c) ==
  LET rows == {p \in judge_outerjoin(J) :
                 J[p[1]].competition_id = c \/ p[2] = c}
      ids  == {p[1] : p \in rows}
  IN  [j \in ids |-> Cardinality({p \in rows : p[1] = j})]

\* .distinct(): every selected row once
distinct_off(B) == B

distinct(B) == [r \in DOMAIN B |-> 1]

\* the tabulator's judges = _competition_judges_query(c).all(), as a bag
competition_judges_all(J, c) == distinct(judge_filter(J, c))

\* Effective competition set of a judge
judge_competition_ids(judge) ==
  IF judge = NoJudge THEN {}
  ELSE judge.competitions \cup
       (IF judge.competition_id # 0 THEN {judge.competition_id} ELSE {})

\* Number of rows of bag S that satisfy P
RowCount(S, P(_)) ==
  BagCardinality([r \in {q \in DOMAIN S : P(q)} |-> S[r]])

OfContestant(r, e, c, x) ==
  r.event_id = e /\ r.competition_id = c /\ r.contestant_id = x

OfCell(r, e, c, j, x, k) ==
  OfContestant(r, e, c, x) /\ r.judge_id = j /\ r.criteria_id = k

\* Score.query.filter_by(event, competition, contestant, locked=True).count() > 0
locked_exists_unchecked(S, e, c, x) == FALSE

locked_exists(S, e, c, x) ==
  RowCount(S, LAMBDA r : OfContestant(r, e, c, x) /\ r.locked) > 0

\* Score.query.filter_by(event, competition, contestant).count()
saved_scores(S, e, c, x) ==
  RowCount(S, LAMBDA r : OfContestant(r, e, c, x))

\* Score.query.filter_by(event, competition, judge, contestant).count()
existing_count_zero(S, e, c, j, x) == 0

existing_count(S, e, c, j, x) ==
  RowCount(S, LAMBDA r : OfContestant(r, e, c, x) /\ r.judge_id = j)

\* Criteria for which the cell (e, c, j, x, k) has a row: the result of the
\* per-criterion Score.query.filter_by(...).first() look-ups
found_entries(S, e, c, j, x) ==
  {k \in criteria_items(c) :
     \E r \in DOMAIN S : OfCell(r, e, c, j, x, k)}

----------------------------------------------------------------------------
(* Form validation *)

\* wtforms DataRequired: the coerced field data must be truthy
DataRequired(v) == v # 0

\* wtforms NumberRange(min=0, max=max_score)
NumberRange_nomax(v, max) == v >= 0

NumberRange(v, max) == v >= 0 /\ v <= max

\* validators of the FloatField generated for every criterion
fields_valid_first_only(c, vals) ==
  \A k \in criteria_items(c) :
     (\A m \in criteria_items(c) : k <= m) =>
        DataRequired(vals[k]) /\ NumberRange(vals[k], Criteria[k].max_score)

fields_valid(c, vals) ==
  \A k \in criteria_items(c) :
     DataRequired(vals[k]) /\ NumberRange(vals[k], Criteria[k].max_score)

----------------------------------------------------------------------------
(* Writes to the Score table *)

ScoreRow(e, c, j, x, k, v, l) ==
  [event_id |-> e, competition_id |-> c, judge_id |-> j, contestant_id |-> x,
   criteria_id |-> k, score |-> v, locked |-> l]

\* UniqueConstraint uq_score_entry: an INSERT of row r into S is admitted
uq_score_entry_off(S, r) == TRUE

uq_score_entry(S, r) ==
  ~ \E q \in DOMAIN S :
       OfCell(q, r.event_id, r.competition_id, r.judge_id, r.contestant_id,
              r.criteria_id)

\* Body of the tabulator's loop for criterion k: insert an unlocked row when
\* the look-up found none, otherwise overwrite the score of the row found
upsert_max(S, e, c, j, x, k, v, found) ==
  IF k \notin found
  THEN S (+) SetToBag({ScoreRow(e, c, j, x, k, v, FALSE)})
  ELSE IF \E r \in DOMAIN S : OfCell(r, e, c, j, x, k)
       THEN LET r == CHOOSE q \in DOMAIN S : OfCell(q, e, c, j, x, k)
            IN  (S (-) SetToBag({r}))
                (+) SetToBag({[r EXCEPT !.score = Criteria[k].max_score]})
       ELSE S

upsert(S, e, c, j, x, k, v, found) ==
  IF k \notin found
  THEN S (+) SetToBag({ScoreRow(e, c, j, x, k, v, FALSE)})
  ELSE IF \E r \in DOMAIN S : OfCell(r, e, c, j, x, k)
       THEN LET r == CHOOSE q \in DOMAIN S : OfCell(q, e, c, j, x, k)
            IN  (S (-) SetToBag({r})) (+) SetToBag({[r EXCEPT !.score = v]})
       ELSE S

Min(ks) == CHOOSE k \in ks : \A m \in ks : k <= m

RECURSIVE upsert_all(_, _, _, _, _, _, _, _)
upsert_all(S, e, c, j, x, ks, vals, found) ==
  IF ks = {} THEN S
  ELSE LET k == Min(ks)
       IN  upsert_all(upsert(S, e, c, j, x, k, vals[k], found),
                      e, c, j, x, ks \ {k}, vals, found)

\* Score.query.filter_by(event, competition, contestant).update({"locked": True})
\* for the contestant of request a
lock_contestant_own_judge(S, e, a) ==
  BagOfAll(LAMBDA r : IF OfContestant(r, e, a.competition_id, a.contestant_id)
                         /\ r.judge_id = a.judge_id
                      THEN [r EXCEPT !.locked = TRUE] ELSE r, S)

lock_contestant_rescore(S, e, a) ==
  BagOfAll(LAMBDA r : IF OfContestant(r, e, a.competition_id, a.contestant_id)
                      THEN [r EXCEPT !.locked = TRUE,
                                     !.score = a.vals[r.criteria_id]]
                      ELSE r, S)

lock_contestant(S, e, a) ==
  BagOfAll(LAMBDA r : IF OfContestant(r, e, a.competition_id, a.contestant_id)
                      THEN [r EXCEPT !.locked = TRUE] ELSE r, S)

\* the lock is refused when fewer rows are saved than judges x criteria
lock_refused_unchecked(saved, expected) == FALSE

lock_refused(saved, expected) == saved < expected

\* db.session.commit() before the refusal is returned: the upserts S1 of the
\* request replace the table S0
incomplete_rollback(S0, S1) == S0

incomplete_commit(S0, S1) == S1

----------------------------------------------------------------------------
(* Tabulator score entry: POST /tabulator/score/<competition_id> *)

TabRequest(c, j, x, vals, lock) ==
  [op |-> "score_entry", competition_id |-> c, judge_id |-> j,
   contestant_id |-> x, vals |-> vals, lock |-> lock]

\* form.validate_on_submit() of DynamicScoreForm
score_entry_validate(J, a) ==
  /\ a.judge_id \in DOMAIN competition_judges_all(J, a.competition_id)
  /\ a.contestant_id \in contestants(a.competition_id)
  /\ fields_valid(a.competition_id, a.vals)

\* the reads that precede the writes: "ok" or the rejection
score_entry_check(J, S, e, a) ==
  IF ~ score_entry_validate(J, a) THEN "ValidationFailed"
  ELSE IF locked_exists(S, e, a.competition_id, a.contestant_id) THEN "Locked"
  ELSE "ok"

\* the upsert loop, the optional lock transition and the commit
score_entry_write_count_first(S, e, njudges, a, found) ==
  LET c  == a.competition_id
      x  == a.contestant_id
      ks == criteria_items(c)
      S1 == upsert_all(S, e, c, a.judge_id, x, ks, a.vals, found)
  IN  IF a.lock
      THEN IF saved_scores(S, e, c, x) < njudges * Cardinality(ks)
           THEN [scores |-> S1, resp |-> "IncompleteSubmission"]
           ELSE [scores |-> lock_contestant(S1, e, a), resp |-> "ScoresLocked"]
      ELSE [scores |-> S1, resp |-> "ScoresSaved"]

score_entry_write(S, e, njudges, a, found) ==
  LET c  == a.competition_id
      j  == a.judge_id
      x  == a.contestant_id
      ks == criteria_items(c)
      conflict == \E k \in ks \ found :
                     ~ uq_score_entry(S, ScoreRow(e, c, j, x, k, a.vals[k], FALSE))
      S1 == upsert_all(S, e, c, j, x, ks, a.vals, found)
      expected_scores == njudges * Cardinality(ks)
  IN  IF conflict THEN [scores |-> S, resp |-> "IntegrityError"]
      ELSE IF a.lock
      THEN IF lock_refused(saved_scores(S1, e, c, x), expected_scores)
           THEN [scores |-> incomplete_commit(S, S1),
                 resp |-> "IncompleteSubmission"]
           ELSE [scores |-> lock_contestant(S1, e, a), resp |-> "ScoresLocked"]
      ELSE [scores |-> S1, resp |-> "ScoresSaved"]

\* the whole handler when no other request overlaps it
score_entry_result(J, S, e, a) ==
  LET chk == score_entry_check(J, S, e, a)
  IN  IF chk # "ok" THEN [scores |-> S, resp |-> chk]
      ELSE score_entry_write(S, e,
             BagCardinality(competition_judges_all(J, a.competition_id)), a,
             found_entries(S, e, a.competition_id, a.judge_id, a.contestant_id))

----------------------------------------------------------------------------
(* Judge ballot: POST /judge/score/<competition_id> *)

BallotRequest(c, j, x, vals) ==
  [op |-> "score", competition_id |-> c, judge_id |-> j,
   contestant_id |-> x, vals |-> vals, lock |-> FALSE]

\* contestants for which the judge has as many rows as there are criteria
scored_contestants(S, e, c, j) ==
  IF criteria_items(c) # {} /\ contestants(c) # {}
  THEN {x \in contestants(c) :
          existing_count(S, e, c, j, x) = Cardinality(criteria_items(c))}
  ELSE {}

score_check(J, S, e, a) ==
  LET c == a.competition_id
      j == a.judge_id
      x == a.contestant_id
  IN  IF c \notin judge_competition_ids(J[j]) THEN "NotLinked"
      ELSE IF ~ fields_valid(c, a.vals) THEN "ValidationFailed"
      ELSE IF x \notin contestants(c) THEN "InvalidContestant"
      ELSE IF x \in scored_contestants(S, e, c, j) THEN "AlreadySubmitted"
      ELSE IF existing_count(S, e, c, j, x) > 0 THEN "AlreadySubmitted"
      ELSE "ok"

\* the insert loop and the commit
score_write_first_only(S, e, a) ==
  LET k == Min(criteria_items(a.competition_id))
  IN  [scores |-> S (+) SetToBag({ScoreRow(e, a.competition_id, a.judge_id,
                                           a.contestant_id, k, a.vals[k], TRUE)}),
       resp |-> "ScoresSubmitted"]

score_write(S, e, a) ==
  LET c  == a.competition_id
      j  == a.judge_id
      x  == a.contestant_id
      ks == criteria_items(c)
      conflict == \E k \in ks :
                     ~ uq_score_entry(S, ScoreRow(e, c, j, x, k, a.vals[k], TRUE))
  IN  IF conflict THEN [scores |-> S, resp |-> "IntegrityError"]
      ELSE [scores |-> S (+) SetToBag({ScoreRow(e, c, j, x, k, a.vals[k], TRUE) :
                                          k \in ks}),
            resp |-> "ScoresSubmitted"]

score_result(J, S, e, a) ==
  LET chk == score_check(J, S, e, a)
  IN  IF chk # "ok" THEN [scores |-> S, resp |-> chk]
      ELSE score_write(S, e, a)

----------------------------------------------------------------------------
(* Aggregation: _calculate_results.  The code computes in floating point;   *)
(* the model computes the same expressions on exact fractions n/d, d > 0.   *)

RECURSIVE GCD(_, _)
GCD(a, b) == IF b = 0 THEN a ELSE GCD(b, a % b)

\* the fraction n/d in lowest terms (n >= 0, d > 0)
Frac(n, d) == LET g == GCD(n, d) IN [n |-> n \div g, d |-> d \div g]

FracAdd(p, q) == Frac(p.n * q.d + q.n * p.d, p.d * q.d)

FracMul(p, q) == Frac(p.n * q.n, p.d * q.d)

\* p / q for q > 0
FracDiv(p, q) == Frac(p.n * q.d, p.d * q.n)

FracLess(p, q) == p.n * q.d < q.n * p.d

\* Python min(p, q): q when q < p, else p
FracMin(p, q) == IF FracLess(q, p) THEN q ELSE p

\* the elements of a set of ids in increasing order
RECURSIVE InOrder(_)
InOrder(ids) ==
  IF ids = {} THEN <<>>
  ELSE LET m == CHOOSE i \in ids : \A o \in ids : o <= i
       IN  Append(InOrder(ids \ {m}), m)

\* Contestant.query.filter_by(competition_id=c).all(): no ORDER BY, the rows
\* come in primary-key order
contestants_query(ct, c) ==
  InOrder({x \in DOMAIN ct : ct[x].competition_id = c})

\* Criteria.query.filter_by(competition_id=c).order_by(Criteria.name).all()
criteria_query(cr, c) ==
  InOrder({k \in DOMAIN cr : cr[k].competition_id = c})

\* sum(score.score for score in scores) over the rows `rows` of bag S
RECURSIVE scores_sum(_, _)
scores_sum(S, rows) ==
  IF rows = {} THEN 0
  ELSE LET r == CHOOSE q \in rows : TRUE
       IN  r.score * S[r] + scores_sum(S, rows \ {r})

\* avg_raw of the rows of (e, c, x, k): scores_sum / score_count, or 0.0
avg_raw_zero(S, e, c, x, k) == Frac(0, 1)

avg_raw(S, e, c, x, k) ==
  LET rows == {r \in DOMAIN S : OfContestant(r, e, c, x) /\ r.criteria_id = k}
      score_count == RowCount(S, LAMBDA r : r \in rows)
  IN  IF score_count # 0 THEN Frac(scores_sum(S, rows), score_count)
      ELSE Frac(0, 1)

\* (avg_raw / max_score) * weight if max_score else 0.0
weighted_total(avg, criteria_item) ==
  IF criteria_item.max_score # 0
  THEN FracMul(FracDiv(avg, Frac(criteria_item.max_score, 1)),
               Frac(criteria_item.weight, 1))
  ELSE Frac(0, 1)

\* total of f over the criteria ks, accumulated in list order from 0.0
RECURSIVE accumulate(_, _)
accumulate(f, ks) ==
  IF ks = <<>> THEN Frac(0, 1)
  ELSE FracAdd(accumulate(f, SubSeq(ks, 1, Len(ks) - 1)), f[ks[Len(ks)]])

\* total_weighted = min(total_weighted, 100.0)
clamp_off(total) == total

clamp(total) == FracMin(total, Frac(100, 1))

\* the dictionary appended to results for contestant x
result_row(S, ct, cr, e, c, x) ==
  LET ks  == criteria_query(cr, c)
      ids == {ks[i] : i \in DOMAIN ks}
      criteria_raw_totals == [k \in ids |-> avg_raw(S, e, c, x, k)]
      criteria_weighted_totals ==
        [k \in ids |-> weighted_total(criteria_raw_totals[k], cr[k])]
  IN  [contestant |-> ct[x].name,
       total |-> clamp(accumulate(criteria_weighted_totals, ks)),
       total_raw |-> accumulate(criteria_raw_totals, ks),
       criteria_totals |-> criteria_weighted_totals,
       criteria_raw_totals |-> criteria_raw_totals]

\* one step of the stable descending sort: row goes behind every row whose
\* total is not smaller
insert_row(sorted, row) ==
  LET p == Cardinality({i \in DOMAIN sorted :
                          ~ FracLess(sorted[i].total, row.total)})
  IN  SubSeq(sorted, 1, p) \o <<row>> \o SubSeq(sorted, p + 1, Len(sorted))

\* results.sort(key=lambda row: row["total"], reverse=True)
RECURSIVE sort_results(_)
sort_results(rows) ==
  IF rows = <<>> THEN <<>>
  ELSE insert_row(sort_results(SubSeq(rows, 1, Len(rows) - 1)), rows[Len(rows)])

calculate_results(S, ct, cr, e, c) ==
  LET xs == contestants_query(ct, c)
  IN  sort_results([i \in DOMAIN xs |-> result_row(S, ct, cr, e, c, xs[i])])

NoResults == [event_id |-> 0, competition_id |-> 0, rows |-> <<>>]

\* a text of n characters ch
Run(ch, n) == [i \in 1 .. n |-> ch]

\* the byte of a character: ORDER BY on a text column compares bytes
char_code(ch) ==
  CASE ch = " " -> 32
    [] ch = "a" -> 97
    [] ch = "m" -> 109
    [] ch = "n" -> 110
    [] OTHER -> 122  \* names are written with the characters above

\* a <= b for texts a and b
RECURSIVE text_leq(_, _)
text_leq(a, b) ==
  IF a = <<>> THEN TRUE
  ELSE IF b = <<>> THEN FALSE
  ELSE IF a[1] # b[1] THEN char_code(a[1]) < char_code(b[1])
  ELSE text_leq(Tail(a), Tail(b))

\* Contestant.query.filter_by(competition_id=c).order_by(Contestant.name)
RECURSIVE by_name(_, _)
by_name(ct, ids) ==
  IF ids = {} THEN <<>>
  ELSE LET m == CHOOSE i \in ids :
                   \A o \in ids : text_leq(ct[o].name, ct[i].name)
       IN  Append(by_name(ct, ids \ {m}), m)

contestants_by_name(ct, c) ==
  by_name(ct, {x \in DOMAIN ct : ct[x].competition_id = c})

\* score_lookup.get((j, x, k)): <<>> stands for None, <<v>> for the score v
score_lookup(S, e, c, j, x, k) ==
  LET rows == {r \in DOMAIN S : OfCell(r, e, c, j, x, k)}
  IN  IF rows = {} THEN <<>> ELSE <<(CHOOSE r \in rows : TRUE).score>>

\* the share a raw score adds to total_weighted
raw_share(raw_score, criteria_item) ==
  IF raw_score # <<>> /\ criteria_item.max_score # 0
  THEN FracMul(Frac(raw_score[1], criteria_item.max_score),
               Frac(criteria_item.weight, 1))
  ELSE Frac(0, 1)

\* the rows of one judge: one dictionary per contestant, in name order
breakdown_rows(S, ct, cr, e, c, j) ==
  LET xs  == contestants_by_name(ct, c)
      ks  == criteria_query(cr, c)
      ids == {ks[i] : i \in DOMAIN ks}
  IN  [i \in DOMAIN xs |->
         LET criteria_scores ==
               [k \in ids |-> score_lookup(S, e, c, j, xs[i], k)]
         IN  [contestant |-> ct[xs[i]].name,
              criteria_scores |-> criteria_scores,
              total |-> clamp(accumulate(
                          [k \in ids |-> raw_share(criteria_scores[k], cr[k])],
                          ks))]]

\* {score.judge_id for score in scores} of event e and competition c
judge_ids_with_scores(S, e, c) ==
  {r.judge_id : r \in {q \in DOMAIN S : q.event_id = e /\ q.competition_id = c}}

\* the loop of the scoring view: judges without a score are skipped
scoring_breakdown(J, S, ct, cr, e, c) ==
  LET js == InOrder({j \in competition_judges_query(J, c) :
                       j \in judge_ids_with_scores(S, e, c)})
  IN  [i \in DOMAIN js |->
         [judge |-> js[i], rows |-> breakdown_rows(S, ct, cr, e, c, js[i])]]

\* _build_judge_breakdown: one item per judge of the competition
build_judge_breakdown(J, S, ct, cr, e, c) ==
  LET js == InOrder(competition_judges_query(J, c))
  IN  [i \in DOMAIN js |->
         [judge |-> js[i], rows |-> breakdown_rows(S, ct, cr, e, c, js[i])]]

NoBreakdown ==
  [view |-> "none", event_id |-> 0, competition_id |-> 0, items |-> <<>>]

----------------------------------------------------------------------------
(* Report: render_results_pdf.  A text is a sequence of characters.  The    *)
(* library's get_string_width is the sum of the character widths of the     *)
(* font (thousandths of the font size) times the font size in points; a     *)
(* point is 25.4 / 72 mm, so a thousandth of a point is 127 / 360000 mm.    *)
(* Widths are kept in units of 1 / 360000 mm.                               *)

\* " ".join(words)
RECURSIVE join(_)
join(words) ==
  IF words = <<>> THEN <<>>
  ELSE IF Len(words) = 1 THEN words[1]
  ELSE words[1] \o <<" ">> \o join(Tail(words))

\* text.split(): the maximal runs of characters other than the space
RECURSIVE split(_)
split(text) ==
  IF text = <<>> THEN <<>>
  ELSE IF text[1] = " " THEN split(Tail(text))
  ELSE LET stop == IF \E i \in DOMAIN text : text[i] = " "
                   THEN (CHOOSE i \in DOMAIN text :
                           /\ text[i] = " "
                           /\ \A o \in 1 .. i - 1 : text[o] # " ") - 1
                   ELSE Len(text)
       IN  <<SubSeq(text, 1, stop)>> \o split(SubSeq(text, stop + 1, Len(text)))

\* character widths of Helvetica-Bold ("B") and Helvetica (""), in
\* thousandths of the font size
char_width(ch, style) ==
  CASE ch \in {" ", "."} -> 278
    [] ch \in {"(", ")"} -> 333
    [] ch = "%" -> 889
    [] ch \in {"C", "R"} -> 722
    [] ch = "T" -> 611
    [] ch \in {"i", "l"} -> IF style = "B" THEN 278 ELSE 222
    [] ch = "t" -> IF style = "B" THEN 333 ELSE 278
    [] ch = "m" -> IF style = "B" THEN 889 ELSE 833
    [] ch \in {"n", "o"} -> IF style = "B" THEN 611 ELSE 556
    [] ch \in {"k", "s"} -> IF style = "B" THEN 556 ELSE 500
    [] OTHER -> 556

RECURSIVE units(_, _)
units(text, style) ==
  IF text = <<>> THEN 0
  ELSE char_width(text[1], style) + units(Tail(text), style)

\* pdf.get_string_width(text) with the font set to (style, size)
get_string_width(font, text) ==
  Frac(units(text, font.style) * font.size * 127, 1)

\* a width of n/d millimetres
mm(n, d) == Frac(n * 360000, d)

FracLeq(p, q) == ~ FracLess(q, p)

ellipsis == <<".", ".", ".">>

\* the loop of _ellipsize_to_width: characters are dropped from the end while
\* trimmed + "..." is too wide
trim_all(font, trimmed, max_width) == <<>>

RECURSIVE trim(_, _, _)
trim(font, trimmed, max_width) ==
  IF trimmed # <<>> /\
     FracLess(max_width, get_string_width(font, trimmed \o ellipsis))
  THEN trim(font, SubSeq(trimmed, 1, Len(trimmed) - 1), max_width)
  ELSE trimmed

ellipsize_off(font, text, max_width) == text

ellipsize_to_width(font, text, max_width) ==
  IF FracLeq(get_string_width(font, text), max_width) THEN text
  ELSE IF FracLeq(max_width, get_string_width(font, ellipsis)) THEN ellipsis
  ELSE trim(font, text, max_width) \o ellipsis

\* max(get_string_width(left), get_string_width(right)) of the split after
\* the first index words
max_line(font, words, index) ==
  LET left  == get_string_width(font, join(SubSeq(words, 1, index)))
      right == get_string_width(font, join(SubSeq(words, index + 1, Len(words))))
  IN  IF FracLess(left, right) THEN right ELSE left

\* the loop over range(1, len(words)): best_split after the indexes 1 .. upto
best_split_first(font, words, upto) == 1

RECURSIVE best_split(_, _, _)
best_split(font, words, upto) ==
  IF upto = 1 THEN 1
  ELSE LET best == best_split(font, words, upto - 1)
       IN  IF FracLess(max_line(font, words, upto), max_line(font, words, best))
           THEN upto ELSE best

split_header_label(font, text, max_width) ==
  IF FracLeq(get_string_width(font, text), max_width) THEN <<text, <<>>>>
  ELSE LET words == split(text)
       IN  IF Len(words) <= 1
           THEN <<ellipsize_to_width(font, text, max_width), <<>>>>
           ELSE LET index == best_split(font, words, Len(words) - 1)
                IN  <<ellipsize_to_width(
                        font, join(SubSeq(words, 1, index)), max_width),
                      ellipsize_to_width(
                        font, join(SubSeq(words, index + 1, Len(words))),
                        max_width)>>

BoldFont(size) == [style |-> "B", size |-> size]

\* the body of the loop over sizes: every label fits at this size
header_fits(labels, size) ==
  \A i \in DOMAIN labels :
     LET lines == split_header_label(BoldFont(size), labels[i].text,
                                     labels[i].width)
     IN  /\ FracLeq(get_string_width(BoldFont(size), lines[1]), labels[i].width)
         /\ (lines[2] # <<>> =>
               FracLeq(get_string_width(BoldFont(size), lines[2]),
                       labels[i].width))

\* for size in range(max_size, min_size - 1, -1): ... return size; return
\* min_size
RECURSIVE fit_header_font_size(_, _, _)
fit_header_font_size(labels, max_size, min_size) ==
  IF max_size < min_size THEN min_size
  ELSE IF header_fits(labels, max_size) THEN max_size
  ELSE fit_header_font_size(labels, max_size - 1, min_size)

RECURSIVE Pow10(_)
Pow10(d) == IF d = 0 THEN 1 ELSE 10 * Pow10(d - 1)

Digits == <<"0", "1", "2", "3", "4", "5", "6", "7", "8", "9">>

\* str(n) for n >= 0
RECURSIVE str(_)
str(n) ==
  IF n < 10 THEN <<Digits[n + 1]>>
  ELSE Append(str(n \div 10), Digits[(n % 10) + 1])

\* the last d digits of n, with leading zeros
RECURSIVE zfill(_, _)
zfill(n, d) ==
  IF d = 0 THEN <<>> ELSE Append(zfill(n \div 10, d - 1), Digits[(n % 10) + 1])

\* value * 10^d rounded to an integer, a tie going to the even neighbour
round_scaled(value, d) ==
  LET num == value.n * Pow10(d)
      q   == num \div value.d
      r   == num % value.d
  IN  IF 2 * r > value.d \/ (2 * r = value.d /\ q % 2 = 1) THEN q + 1 ELSE q

\* f"{value:.<d>f}" for value >= 0
format_fixed(value, d) ==
  LET q == round_scaled(value, d)
  IN  str(q \div Pow10(d)) \o
        (IF d = 0 THEN <<>> ELSE <<".">> \o zfill(q % Pow10(d), d))

\* f"{value:.4f}"
format_score(value) == format_fixed(value, 4)

FracSub(p, q) == Frac(p.n * q.d - q.n * p.d, p.d * q.d)

\* Python max(p, q): q when p < q, else p
FracMax(p, q) == IF FracLess(p, q) THEN q ELSE p

\* orientation of the page
orientation_portrait(criteria_count, row_count) == "P"

orientation(criteria_count, row_count) ==
  IF criteria_count > 4 \/ row_count > 15 THEN "L" ELSE "P"

\* pdf.w - pdf.l_margin - pdf.r_margin of an A4 page (595.28 x 841.89
\* points) with the library's margins of 28.35 points
page_width(o) ==
  IF o = "L" THEN Frac(785190 * 127, 1) ELSE Frac(538580 * 127, 1)

body_font_size_fixed(criteria_count, row_count) == 8

body_font_size(criteria_count, row_count) ==
  LET by_criteria == IF criteria_count > 8 THEN 6
                     ELSE IF criteria_count > 6 THEN 7 ELSE 8
  IN  IF row_count > 20
      THEN (IF by_criteria - 1 < 5 THEN 5 ELSE by_criteria - 1)
      ELSE by_criteria

\* f"{item.name} ({item.weight:.0f}%)"
criteria_label(item) ==
  item.name \o <<" ", "(">> \o format_fixed(Frac(item.weight, 1), 0)
    \o <<"%", ")">>

\* one body row of the table
body_row(font, index, row, cr, ks, contestant_width, criteria_width, total_width) ==
  [rank |-> str(index),
   contestant |-> ellipsize_to_width(font, row.contestant, contestant_width),
   criteria |->
     [i \in DOMAIN ks |->
        ellipsize_to_width(
          font,
          format_score(row.criteria_totals[ks[i]]) \o <<"(">>
            \o format_score(row.criteria_raw_totals[ks[i]]) \o <<")">>,
          criteria_width)],
   total |-> ellipsize_to_width(font, format_score(row.total), total_width)]

\* the page that render_results_pdf lays out for the rows `results` and the
\* criteria ks of table cr
render_results_pdf(results, cr, ks) ==
  LET criteria_count == IF Len(ks) > 1 THEN Len(ks) ELSE 1
      o == orientation(criteria_count, Len(results))
      rank_width == mm(10, 1)
      contestant_width == mm(40, 1)
      total_width == mm(22, 1)
      remaining_width ==
        FracSub(FracSub(FracSub(page_width(o), rank_width), contestant_width),
                total_width)
      criteria_width ==
        FracMax(mm(18, 1), FracDiv(remaining_width, Frac(criteria_count, 1)))
      body_font == body_font_size(criteria_count, Len(results))
      max_size == IF body_font + 1 < 10 THEN body_font + 1 ELSE 10
      header_labels ==
        <<[text |-> <<"R", "a", "n", "k">>, width |-> rank_width],
          [text |-> <<"C", "o", "n", "t", "e", "s", "t", "a", "n", "t">>,
           width |-> contestant_width]>>
        \o [i \in DOMAIN ks |->
              [text |-> criteria_label(cr[ks[i]]), width |-> criteria_width]]
        \o <<[text |-> <<"T", "o", "t", "a", "l">>, width |-> total_width]>>
      header_font == fit_header_font_size(header_labels, max_size, 6)
      last == Len(header_labels)
  IN  [orientation |-> o,
       body_font |-> body_font,
       max_size |-> max_size,
       header_font |-> header_font,
       row_height |-> IF body_font <= 6 THEN 6 ELSE 7,
       header |->
         [i \in DOMAIN header_labels |->
            LET lines == IF i \in {1, last}
                         THEN <<header_labels[i].text, <<>>>>
                         ELSE split_header_label(BoldFont(header_font),
                                                 header_labels[i].text,
                                                 header_labels[i].width)
            IN  [text |-> header_labels[i].text,
                 width |-> header_labels[i].width,
                 line_one |-> lines[1], line_two |-> lines[2]]],
       body |->
         [i \in DOMAIN results |->
            body_row([style |-> "", size |-> body_font], i, results[i], cr,
                     ks, contestant_width, criteria_width, total_width)]]

NoReport == [orientation |-> "none"]

NoLayout == [pc |-> "none"]

\* the tables of the set-up data, as the result views read them
StaticViews ==
  /\ contestant_rows = [x \in DOMAIN Contestant |->
                          [name |-> Run("a", x), competition_id |-> Contestant[x]]]
  /\ criteria_rows = [k \in DOMAIN Criteria |->
                        [competition_id |-> Criteria[k].competition_id,
                         max_score |-> Criteria[k].max_score,
                         weight |-> Criteria[k].weight,
                         name |-> Run("a", k)]]
  /\ results_rows = NoResults
  /\ judge_breakdown = NoBreakdown
  /\ report = NoReport
  /\ layout = NoLayout

----------------------------------------------------------------------------
(* State *)

NoRequest ==
  [op |-> "none", competition_id |-> 0, judge_id |-> 0, contestant_id |-> 0,
   vals |-> <<>>, lock |-> FALSE]

NoSession ==
  [pc |-> "none", a |-> NoRequest, e |-> 0, njudges |-> 0, found |-> {}]

AdminRequest(op, c, j) ==
  [op |-> op, competition_id |-> c, judge_id |-> j, contestant_id |-> 0,
   vals |-> <<>>, lock |-> FALSE]

\* Values a form can carry for the criteria of competition c: the last field
\* ranges over ScoreInputs, the fields before it carry 1
FormInputs(c) ==
  {vals \in [criteria_items(c) -> ScoreInputs] :
     \A k \in criteria_items(c) :
        (\E m \in criteria_items(c) : m > k) => vals[k] = 1}

Init ==
  /\ judges = [j \in JudgeIds |->
                 IF j = 1 THEN [competition_id |-> 1, competitions |-> {1}]
                 ELSE IF j = 2 THEN [competition_id |-> 1, competitions |-> {1, 2}]
                 ELSE NoJudge]
  /\ events = <<"active">>
  /\ scores = EmptyBag
  /\ req = NoRequest
  /\ resp = "none"
  /\ sessions = [s \in 1 .. MaxSessions |-> NoSession]
  /\ lock_committed = {}
  /\ nops = 0
  /\ nadmin = 0
  /\ StaticViews

----------------------------------------------------------------------------
(* Requests that run without overlap *)

\* history of committed lock transitions
LockCommitted(L, e, a, outcome) ==
  IF outcome = "ScoresLocked"
  THEN L \cup {<<e, a.competition_id, a.contestant_id>>}
  ELSE L

\* outcomes of a scoring request that end it before any write
Rejected(r) ==
  r \in {"ValidationFailed", "Locked", "NotLinked", "InvalidContestant",
         "AlreadySubmitted"}

score_entry(c, j, x, vals, lock) ==
  LET a == TabRequest(c, j, x, vals, lock)
      r == score_entry_result(judges, scores, get_active_event(events), a)
  IN  /\ resp = "none"
      /\ Rejected(r.resp) \/ nops < MaxOps
      /\ scores' = r.scores
      /\ req' = a
      /\ resp' = r.resp
      /\ lock_committed' = LockCommitted(lock_committed, get_active_event(events), a, r.resp)
      /\ nops' = IF Rejected(r.resp) THEN nops ELSE nops + 1
      /\ UNCHANGED <<views, judges, events, sessions, nadmin>>

score(c, j, x, vals) ==
  LET a == BallotRequest(c, j, x, vals)
      r == score_result(judges, scores, get_active_event(events), a)
  IN  /\ resp = "none"
      /\ Rejected(r.resp) \/ nops < MaxOps
      /\ scores' = r.scores
      /\ req' = a
      /\ resp' = r.resp
      /\ lock_committed' = LockCommitted(lock_committed, get_active_event(events), a, r.resp)
      /\ nops' = IF Rejected(r.resp) THEN nops ELSE nops + 1
      /\ UNCHANGED <<views, judges, events, sessions, nadmin>>

\* manage_judges, "new" form: a Judge row linked to c by both relations
manage_judges_new(c) ==
  LET used == {j \in JudgeIds : judges[j] # NoJudge}
      id   == IF used = {} THEN 1 ELSE (CHOOSE j \in used : \A m \in used : m <= j) + 1
  IN  /\ resp = "none"
      /\ nadmin < MaxAdminOps
      /\ id \in JudgeIds
      /\ judges' = [judges EXCEPT ![id] =
                      [competition_id |-> c, competitions |-> {c}]]
      /\ req' = AdminRequest("manage_judges_new", c, id)
      /\ resp' = "JudgeCreated"
      /\ nadmin' = nadmin + 1
      /\ UNCHANGED <<views, events, scores, sessions, lock_committed, nops>>

\* manage_judges, "assign" form: link an existing judge to c
manage_judges_assign(c, j) ==
  /\ resp = "none"
  /\ nadmin < MaxAdminOps
  /\ judges[j] # NoJudge
  /\ j \notin competition_judges_query(judges, c)
  /\ judges' = [judges EXCEPT ![j].competitions = @ \cup {c}]
  /\ req' = AdminRequest("manage_judges_assign", c, j)
  /\ resp' = "JudgeAssigned"
  /\ nadmin' = nadmin + 1
  /\ UNCHANGED <<views, events, scores, sessions, lock_committed, nops>>

\* Score.query.filter_by(judge_id=j).delete()
delete_scores_of(S, j) ==
  [r \in {q \in DOMAIN S : q.judge_id # j} |-> S[r]]

\* delete_judge with form field competition_id = c (0: field absent)
delete_judge(j, c) ==
  LET judge == judges[j]
      assigned_competitions == judge_competition_ids(judge)
      remaining == assigned_competitions \ {c}
  IN  /\ resp = "none"
      /\ nadmin < MaxAdminOps
      /\ judge # NoJudge
      /\ req' = AdminRequest("delete_judge", c, j)
      /\ nadmin' = nadmin + 1
      /\ UNCHANGED <<views, events, sessions, lock_committed, nops>>
      /\ IF c # 0 /\ c \in assigned_competitions
         THEN IF judge.competition_id = c /\ remaining = {}
              THEN /\ scores' = delete_scores_of(scores, j)
                   /\ judges' = [judges EXCEPT ![j] = NoJudge]
                   /\ resp' = "JudgeDeleted"
              ELSE /\ \E first \in (IF judge.competition_id = c
                                    THEN remaining ELSE {judge.competition_id}) :
                        judges' = [judges EXCEPT ![j] =
                                     [competition_id |-> first,
                                      competitions |-> judge.competitions \ {c}]]
                   /\ scores' = scores
                   /\ resp' = "JudgeRemoved"
         ELSE /\ scores' = delete_scores_of(scores, j)
              /\ judges' = [judges EXCEPT ![j] = NoJudge]
              /\ resp' = "JudgeDeleted"

\* close_event: the active event is completed and a new active event starts
close_event ==
  LET active_event == get_active_event(events)
  IN  /\ resp = "none"
      /\ nadmin < MaxAdminOps
      /\ Len(events) < MaxEvents
      /\ events' = Append([events EXCEPT ![active_event] = "completed"], "active")
      /\ req' = AdminRequest("close_event", 0, 0)
      /\ resp' = "EventClosed"
      /\ nadmin' = nadmin + 1
      /\ UNCHANGED <<views, judges, scores, sessions, lock_committed, nops>>

\* the response is returned; the next request can be handled
respond ==
  /\ resp # "none"
  /\ req' = NoRequest
  /\ resp' = "none"
  /\ UNCHANGED <<views, judges, events, scores, sessions, lock_committed, nops, nadmin>>

Next ==
  \/ \E c \in Competitions, j \in JudgeIds, lock \in BOOLEAN :
        \E x \in contestants(c), vals \in FormInputs(c) :
           score_entry(c, j, x, vals, lock)
  \/ \E c \in Competitions, j \in JudgeIds :
        \E x \in contestants(c), vals \in FormInputs(c) :
           score(c, j, x, vals)
  \/ \E c \in Competitions : manage_judges_new(c)
  \/ \E c \in Competitions, j \in JudgeIds : manage_judges_assign(c, j)
  \/ \E j \in JudgeIds, c \in Competitions \cup {0} : delete_judge(j, c)
  \/ close_event
  \/ respond

Spec == Init /\ [][Next]_vars

----------------------------------------------------------------------------
(* Overlapping scoring requests.  A request runs its checks against the    *)
(* committed table (begin), a tabulator request then runs the look-ups of  *)
(* its upsert loop (lookup), and the writes reach the table when the       *)
(* request commits.  Judges and events stay fixed.                         *)

FreeSession == {s \in DOMAIN sessions : sessions[s] = NoSession}

\* the tabulator handler up to its locked_exists check
score_entry_begin(c, j, x, vals, lock) ==
  LET a   == TabRequest(c, j, x, vals, lock)
      e   == get_active_event(events)
      chk == score_entry_check(judges, scores, e, a)
  IN  /\ resp = "none"
      /\ req' = a
      /\ UNCHANGED <<views, judges, events, scores, lock_committed, nadmin>>
      /\ IF chk # "ok"
         THEN /\ resp' = chk
              /\ UNCHANGED <<sessions, nops>>
         ELSE /\ nops < MaxConcOps
              /\ FreeSession # {}
              /\ sessions' = [sessions EXCEPT ![Min(FreeSession)] =
                   [pc |-> "checked", a |-> a, e |-> e,
                    njudges |-> BagCardinality(competition_judges_all(judges, c)),
                    found |-> {}]]
              /\ resp' = "Pending"
              /\ nops' = nops + 1

\* the judge handler up to its already-submitted checks
score_begin(c, j, x, vals) ==
  LET a   == BallotRequest(c, j, x, vals)
      e   == get_active_event(events)
      chk == score_check(judges, scores, e, a)
  IN  /\ resp = "none"
      /\ req' = a
      /\ UNCHANGED <<views, judges, events, scores, lock_committed, nadmin>>
      /\ IF chk # "ok"
         THEN /\ resp' = chk
              /\ UNCHANGED <<sessions, nops>>
         ELSE /\ nops < MaxConcOps
              /\ FreeSession # {}
              /\ sessions' = [sessions EXCEPT ![Min(FreeSession)] =
                   [pc |-> "ready", a |-> a, e |-> e, njudges |-> 0,
                    found |-> {}]]
              /\ resp' = "Pending"
              /\ nops' = nops + 1

\* the look-ups of the tabulator's upsert loop
score_entry_lookup(s) ==
  LET ss == sessions[s]
  IN  /\ resp = "none"
      /\ ss.pc = "checked"
      /\ sessions' = [sessions EXCEPT ![s] =
           [ss EXCEPT !.pc = "ready",
                      !.found = found_entries(scores, ss.e, ss.a.competition_id,
                                              ss.a.judge_id, ss.a.contestant_id)]]
      /\ UNCHANGED <<views, judges, events, scores, req, resp, lock_committed,
                     nops, nadmin>>

\* the writes of session s are flushed and committed (or rolled back)
commit(s) ==
  LET ss == sessions[s]
      r  == IF ss.a.op = "score_entry"
            THEN score_entry_write(scores, ss.e, ss.njudges, ss.a, ss.found)
            ELSE score_write(scores, ss.e, ss.a)
  IN  /\ resp = "none"
      /\ ss.pc = "ready"
      /\ scores' = r.scores
      /\ req' = ss.a
      /\ resp' = r.resp
      /\ lock_committed' = LockCommitted(lock_committed, ss.e, ss.a, r.resp)
      /\ sessions' = [sessions EXCEPT ![s] = NoSession]
      /\ UNCHANGED <<views, judges, events, nops, nadmin>>

ConcNext ==
  \/ \E c \in Competitions, j \in JudgeIds, lock \in BOOLEAN :
        \E x \in contestants(c), vals \in FormInputs(c) :
           score_entry_begin(c, j, x, vals, lock)
  \/ \E c \in Competitions, j \in JudgeIds :
        \E x \in contestants(c), vals \in FormInputs(c) :
           score_begin(c, j, x, vals)
  \/ \E s \in DOMAIN sessions : score_entry_lookup(s)
  \/ \E s \in DOMAIN sessions : commit(s)
  \/ respond

ConcSpec == Init /\ [][ConcNext]_vars

\* overlapping scoring requests of competition 2 while events are closed
CloseNext ==
  \/ \E j \in JudgeIds, lock \in BOOLEAN :
        \E x \in contestants(2), vals \in FormInputs(2) :
           score_entry_begin(2, j, x, vals, lock)
  \/ \E j \in JudgeIds :
        \E x \in contestants(2), vals \in FormInputs(2) :
           score_begin(2, j, x, vals)
  \/ \E s \in DOMAIN sessions : score_entry_lookup(s)
  \/ \E s \in DOMAIN sessions : commit(s)
  \/ close_event
  \/ respond

CloseSpec == Init /\ [][CloseNext]_vars

----------------------------------------------------------------------------
(* Ballots against a ledger written before the last criterion was added.    *)
(* The criteria page adds a criterion at any time, so a judge whose entries *)
(* were written earlier holds entries for the earlier criteria only.        *)

\* entries of judge j for contestant 1 of competition 1: none, the first
\* criterion only ("early") or every criterion ("all")
JudgeEntries(j, have, locked) ==
  {ScoreRow(1, 1, j, 1, k, 1, locked) :
     k \in IF have = "none" THEN {}
           ELSE IF have = "early" THEN {Min(criteria_items(1))}
           ELSE criteria_items(1)}

\* a tabulator save of all criteria is only accepted while no entry of the
\* contestant is locked, so unlocked full entries do not occur together
\* with locked early entries
BallotLedgers ==
  {SetToBag(JudgeEntries(1, h[1], l[1]) \cup JudgeEntries(2, h[2], l[2])) :
     h \in [{1, 2} -> {"none", "early", "all"}],
     l \in [{1, 2} -> BOOLEAN]}
  \ {SetToBag(JudgeEntries(i, "all", FALSE) \cup JudgeEntries(3 - i, "early", TRUE)) :
       i \in {1, 2}}

BallotInit ==
  /\ judges = [j \in JudgeIds |->
                 IF j = 1 THEN [competition_id |-> 1, competitions |-> {1}]
                 ELSE IF j = 2 THEN [competition_id |-> 1, competitions |-> {1, 2}]
                 ELSE NoJudge]
  /\ events = <<"active">>
  /\ scores \in BallotLedgers
  /\ req = NoRequest
  /\ resp = "none"
  /\ sessions = [s \in 1 .. MaxSessions |-> NoSession]
  /\ lock_committed = {}
  /\ nops = 0
  /\ nadmin = 0
  /\ StaticViews

BallotNext ==
  \/ \E c \in Competitions, j \in JudgeIds :
        \E x \in contestants(c), vals \in FormInputs(c) :
           score(c, j, x, vals)
  \/ respond

BallotSpec == BallotInit /\ [][BallotNext]_vars

----------------------------------------------------------------------------
(* The results view over ledgers of one event and one competition with two  *)
(* criteria, three contestants and the ballots of two judges.               *)

ResultJudges == {1, 2}
ResultContestants == {1, 2, 3}

\* names of contestants 1, 2, 3: the order of creation need not be the order
\* of the names
ContestantNamings == {<<1, 2, 3>>, <<2, 3, 1>>, <<3, 2, 1>>}

ContestantTables ==
  {[x \in ResultContestants |-> [name |-> nm[x], competition_id |-> 1]] :
     nm \in ContestantNamings}

\* criteria pairs <<max_score, weight>>: the weights add up to 100, to 140,
\* to 110, and to 140 with maximum scores that add up to 120
CriteriaSettings ==
  {<<<<10, 60>>, <<5, 40>>>>, <<<<10, 70>>, <<10, 70>>>>,
   <<<<10, 60>>, <<10, 50>>>>, <<<<60, 70>>, <<60, 70>>>>}

CriteriaTables ==
  {[k \in 1 .. 2 |-> [competition_id |-> 1, max_score |-> st[k][1],
                      weight |-> st[k][2]]] :
     st \in CriteriaSettings}

\* values of one ballot: the maximum score of every criterion ("high"), four
\* fifths of it ("low"), or the maximum for the first criterion only ("mixed")
ballot_values(cr, kind) ==
  [k \in DOMAIN cr |->
     IF kind = "high" \/ (kind = "mixed" /\ k = 1)
     THEN cr[k].max_score ELSE (cr[k].max_score * 4) \div 5]

ballot_rows(cr, x, j, kind) ==
  IF kind = "none" THEN {}
  ELSE {ScoreRow(1, 1, j, x, k, ballot_values(cr, kind)[k], FALSE) :
          k \in DOMAIN cr}

ResultLedgers(cr) ==
  {SetToBag(UNION {ballot_rows(cr, p[1], p[2], f[p]) :
                     p \in ResultContestants \X ResultJudges}) :
     f \in [ResultContestants \X ResultJudges ->
              {"none", "low", "high", "mixed"}]}

ResultsInit ==
  /\ judges = [j \in JudgeIds |->
                 IF j \in ResultJudges
                 THEN [competition_id |-> 1, competitions |-> {1}]
                 ELSE NoJudge]
  /\ events = <<"active">>
  /\ contestant_rows \in ContestantTables
  /\ criteria_rows \in CriteriaTables
  /\ scores \in ResultLedgers(criteria_rows)
  /\ results_rows = NoResults
  /\ judge_breakdown = NoBreakdown
  /\ report = NoReport
  /\ layout = NoLayout
  /\ req = NoRequest
  /\ resp = "none"
  /\ sessions = [s \in 1 .. MaxSessions |-> NoSession]
  /\ lock_committed = {}
  /\ nops = 0
  /\ nadmin = 0

\* GET /admin/results?event_id=e&competition_id=c
results(e, c) ==
  /\ results_rows = NoResults
  /\ results_rows' =
       [event_id |-> e, competition_id |-> c,
        rows |-> calculate_results(scores, contestant_rows, criteria_rows, e, c)]
  /\ UNCHANGED <<contestant_rows, criteria_rows, judge_breakdown, report, layout,
                 judges, events, scores, req, resp, sessions, lock_committed,
                 nops, nadmin>>

ResultsNext == \E e \in DOMAIN events, c \in Competitions : results(e, c)

ResultsSpec == ResultsInit /\ [][ResultsNext]_vars

----------------------------------------------------------------------------
(* The judge breakdown of the scoring view and of the history view, over    *)
(* the set-up data, two events and judges linked in different ways.         *)

\* Judge rows: absent, linked to competition 1, to both, or to 2 only
JudgeLinks ==
  {NoJudge, [competition_id |-> 1, competitions |-> {1}],
   [competition_id |-> 1, competitions |-> {1, 2}],
   [competition_id |-> 2, competitions |-> {2}]}

JudgeTables ==
  {J \in [JudgeIds -> JudgeLinks] : J[NumJudges] \in {NoJudge, J[1]}}

\* the ballots a judge has in the ledger: pairs <<event, competition>>
BallotSets == SUBSET {<<1, 1>>, <<2, 1>>, <<2, 2>>}

\* a ballot of judge j: the maximum score for every criterion of every
\* contestant of the competition
full_ballot(e, c, j) ==
  {ScoreRow(e, c, j, x, k, Criteria[k].max_score, e = 1) :
     x \in contestants(c), k \in criteria_items(c)}

\* ledgers of the judges of J; a judge may have ballots in a competition
\* they were removed from, a deleted judge has none
BreakdownLedgers(J) ==
  {SetToBag(UNION {UNION {full_ballot(b[1], b[2], j) : b \in f[j]} :
                     j \in JudgeIds}) :
     f \in {g \in [JudgeIds -> BallotSets] :
              \A j \in JudgeIds : J[j] = NoJudge => g[j] = {}}}

BreakdownInit ==
  /\ judges \in JudgeTables
  /\ events = <<"completed", "active">>
  /\ scores \in BreakdownLedgers(judges)
  /\ StaticViews
  /\ req = NoRequest
  /\ resp = "none"
  /\ sessions = [s \in 1 .. MaxSessions |-> NoSession]
  /\ lock_committed = {}
  /\ nops = 0
  /\ nadmin = 0

\* GET /admin/scoring with arguments event_id and competition_id (0: absent)
scoring(event_id, competition_id) ==
  LET e == IF event_id # 0 THEN event_id ELSE get_active_event(events)
      c == IF competition_id # 0 THEN competition_id
           ELSE CHOOSE m \in Competitions : \A o \in Competitions : m <= o
  IN  /\ judge_breakdown = NoBreakdown
      /\ judge_breakdown' =
           [view |-> "scoring", event_id |-> e, competition_id |-> c,
            items |-> scoring_breakdown(judges, scores, contestant_rows,
                                        criteria_rows, e, c)]
      /\ UNCHANGED <<contestant_rows, criteria_rows, results_rows, report, layout,
                     judges, events, scores, req, resp, sessions,
                     lock_committed, nops, nadmin>>

\* GET /admin/history/results?event_id=e&competition_id=c
history_results(e, c) ==
  /\ judge_breakdown = NoBreakdown
  /\ results_rows' =
       [event_id |-> e, competition_id |-> c,
        rows |-> calculate_results(scores, contestant_rows, criteria_rows, e, c)]
  /\ judge_breakdown' =
       [view |-> "history_results", event_id |-> e, competition_id |-> c,
        items |-> build_judge_breakdown(judges, scores, contestant_rows,
                                        criteria_rows, e, c)]
  /\ UNCHANGED <<contestant_rows, criteria_rows, report, layout, judges, events,
                 scores, req, resp, sessions, lock_committed, nops, nadmin>>

BreakdownNext ==
  \/ \E e \in {0} \cup DOMAIN events, c \in {0} \cup Competitions :
        scoring(e, c)
  \/ \E e \in DOMAIN events, c \in Competitions : history_results(e, c)

BreakdownSpec == BreakdownInit /\ [][BreakdownNext]_vars

----------------------------------------------------------------------------
(* The PDF report of one event over competitions with zero to twelve       *)
(* criteria and zero to twenty-one contestants.                            *)

CriteriaCounts == {0, 2, 4, 5, 7, 9, 12}
ContestantCounts == {0, 1, 15, 16, 21}

Short == Run("a", 3)

\* names of the last criterion: one, two and three words of several lengths;
\* every name begins with Short, so that the criteria are in name order
LastNames ==
  {Short, Run("a", 12), Run("a", 18), Run("a", 30), Run("a", 40),
   join(<<Short, Run("a", 12)>>), join(<<Short, Run("m", 12)>>),
   join(<<Short, Short, Run("a", 10)>>),
   join(<<Run("a", 8), Short, Short>>)}

\* k criteria of competition 1 with equal weights; the last one is named nm
ReportCriteria(k, nm) ==
  [i \in 1 .. k |->
     [competition_id |-> 1, max_score |-> 10, weight |-> 100 \div k,
      name |-> IF i = k THEN nm ELSE Short]]

ReportCriteriaTables ==
  {ReportCriteria(k, nm) : k \in CriteriaCounts, nm \in LastNames}

\* names of the first contestant: short, and wider than the contestant column
FirstNames == {<<"a", "n", "a">>, Run("m", 30)}

ReportContestantTables ==
  {[x \in 1 .. n |->
      [name |-> IF x = 1 THEN nm ELSE <<"a", "n", "a">>, competition_id |-> 1]] :
     n \in ContestantCounts, nm \in FirstNames}

\* ledgers: empty; one judge who gives every contestant the maximum; three
\* judges who give the first contestant 10, 9 and 9 (or 10, 10 and 9) for the
\* first criterion
ReportLedgers(ct, cr) ==
  {EmptyBag,
   SetToBag({ScoreRow(1, 1, 1, x, k, cr[k].max_score, TRUE) :
               x \in DOMAIN ct, k \in DOMAIN cr})}
  \cup
  {SetToBag({ScoreRow(1, 1, j, 1, 1, IF j <= tens THEN 10 ELSE 9, TRUE) :
               j \in 1 .. 3}) :
     tens \in {t \in {1, 2} : ct # <<>> /\ cr # <<>>}}

ReportInit ==
  /\ judges = [j \in JudgeIds |-> [competition_id |-> 1, competitions |-> {1}]]
  /\ events = <<"active">>
  /\ contestant_rows \in ReportContestantTables
  /\ criteria_rows \in ReportCriteriaTables
  /\ scores \in ReportLedgers(contestant_rows, criteria_rows)
  /\ results_rows = NoResults
  /\ judge_breakdown = NoBreakdown
  /\ report = NoReport
  /\ layout = NoLayout
  /\ req = NoRequest
  /\ resp = "none"
  /\ sessions = [s \in 1 .. MaxSessions |-> NoSession]
  /\ lock_committed = {}
  /\ nops = 0
  /\ nadmin = 0

\* GET /admin/results/pdf?event_id=e&competition_id=c
results_pdf_unlocking(e, c) ==
  /\ report = NoReport
  /\ report' = render_results_pdf(
                 calculate_results(scores, contestant_rows, criteria_rows, e, c),
                 criteria_rows, criteria_query(criteria_rows, c))
  /\ scores' = SetToBag({[r EXCEPT !.locked = FALSE] : r \in DOMAIN scores})
  /\ UNCHANGED <<contestant_rows, criteria_rows, results_rows,
                 judge_breakdown, layout, judges, events, req, resp,
                 sessions, lock_committed, nops, nadmin>>

results_pdf(e, c) ==
  LET rows == calculate_results(scores, contestant_rows, criteria_rows, e, c)
  IN  /\ report = NoReport
      /\ results_rows' = [event_id |-> e, competition_id |-> c, rows |-> rows]
      /\ report' = render_results_pdf(rows, criteria_rows,
                                      criteria_query(criteria_rows, c))
      /\ UNCHANGED <<contestant_rows, criteria_rows, judge_breakdown, layout,
                     judges, events, scores, req, resp, sessions,
                     lock_committed, nops, nadmin>>

ReportNext == \E e \in DOMAIN events, c \in Competitions : results_pdf(e, c)

ReportSpec == ReportInit /\ [][ReportNext]_vars

----------------------------------------------------------------------------
(* The loops of the layout engine, one iteration per step: the truncation  *)
(* loop of _ellipsize_to_width and the search of _fit_header_font_size,    *)
(* on the texts, widths and fonts of a report that has been laid out.      *)

LayoutContestantTables ==
  {t \in ReportContestantTables : Len(t) \in {1, 21}}

LayoutInit ==
  /\ judges = [j \in JudgeIds |-> [competition_id |-> 1, competitions |-> {1}]]
  /\ events = <<"active">>
  /\ contestant_rows \in LayoutContestantTables
  /\ criteria_rows \in ReportCriteriaTables
  /\ scores = EmptyBag
  /\ results_rows = NoResults
  /\ judge_breakdown = NoBreakdown
  /\ report = NoReport
  /\ layout = NoLayout
  /\ req = NoRequest
  /\ resp = "none"
  /\ sessions = [s \in 1 .. MaxSessions |-> NoSession]
  /\ lock_committed = {}
  /\ nops = 0
  /\ nadmin = 0

\* what a step of a loop leaves as it is
LayoutFrame ==
  <<judges, events, scores, req, resp, sessions, lock_committed, nops, nadmin,
    contestant_rows, criteria_rows, results_rows, judge_breakdown, report>>

\* the texts _split_header_label passes to _ellipsize_to_width
header_ellipsize_texts(font, text, max_width) ==
  IF FracLeq(get_string_width(font, text), max_width) THEN {}
  ELSE LET words == split(text)
       IN  IF Len(words) <= 1 THEN {text}
           ELSE LET index == best_split(font, words, Len(words) - 1)
                IN  {join(SubSeq(words, 1, index)),
                     join(SubSeq(words, index + 1, Len(words)))}

\* the calls of _ellipsize_to_width while the report is painted: the header
\* lines of the contestant and criteria columns, the contestant cells and
\* the total cells
EllipsizeCalls ==
  UNION {{[font |-> BoldFont(report.header_font), text |-> t,
           max_width |-> report.header[i].width] :
            t \in header_ellipsize_texts(BoldFont(report.header_font),
                                         report.header[i].text,
                                         report.header[i].width)} :
           i \in 2 .. Len(report.header) - 1}
  \cup
  UNION {{[font |-> [style |-> "", size |-> report.body_font],
           text |-> results_rows.rows[i].contestant,
           max_width |-> mm(40, 1)],
          [font |-> [style |-> "", size |-> report.body_font],
           text |-> format_score(results_rows.rows[i].total),
           max_width |-> mm(22, 1)]} :
           i \in DOMAIN results_rows.rows}

\* _ellipsize_to_width up to the loop: the two early returns, trimmed = text
ellipsize_begin(call) ==
  /\ layout = NoLayout
  /\ layout' =
       IF FracLeq(get_string_width(call.font, call.text), call.max_width)
       THEN [pc |-> "returned", loop |-> "ellipsize", font |-> call.font,
             text |-> call.text, max_width |-> call.max_width,
             result |-> call.text]
       ELSE IF FracLeq(call.max_width, get_string_width(call.font, ellipsis))
       THEN [pc |-> "returned", loop |-> "ellipsize", font |-> call.font,
             text |-> call.text, max_width |-> call.max_width,
             result |-> ellipsis]
       ELSE [pc |-> "trim", font |-> call.font, text |-> call.text,
             max_width |-> call.max_width, trimmed |-> call.text]
  /\ UNCHANGED LayoutFrame

\* trimmed = trimmed[:-1]
trim_twice(trimmed) == SubSeq(trimmed, 1, Len(trimmed) - 2)

trim_once(trimmed) == SubSeq(trimmed, 1, Len(trimmed) - 1)

\* one test of the while condition: an iteration, or the return
ellipsize_step ==
  /\ layout.pc = "trim"
  /\ layout' =
       IF layout.trimmed # <<>> /\
          FracLess(layout.max_width,
                   get_string_width(layout.font, layout.trimmed \o ellipsis))
       THEN [layout EXCEPT !.trimmed = trim_once(layout.trimmed)]
       ELSE [pc |-> "returned", loop |-> "ellipsize", font |-> layout.font,
             text |-> layout.text, max_width |-> layout.max_width,
             result |-> layout.trimmed \o ellipsis]
  /\ UNCHANGED LayoutFrame

\* the labels and widths render_results_pdf passes to the fit search
header_labels ==
  [i \in DOMAIN report.header |->
     [text |-> report.header[i].text, width |-> report.header[i].width]]

\* _fit_header_font_size up to the first size of range(max_size, min_size - 1, -1).
\* The outcome of the fit test of a size depends on the labels and the size
\* only; it is recorded here for every size of the range and read by the
\* iteration that tests the size.
fit_begin ==
  /\ layout = NoLayout
  /\ report # NoReport
  /\ layout' =
       IF report.max_size < 6
       THEN [pc |-> "returned", loop |-> "fit", labels |-> header_labels,
             max_size |-> report.max_size, min_size |-> 6, result |-> 6]
       ELSE [pc |-> "fit", labels |-> header_labels,
             max_size |-> report.max_size, min_size |-> 6,
             size |-> report.max_size,
             fits |-> [z \in 6 .. report.max_size |->
                         header_fits(header_labels, z)]]
  /\ UNCHANGED LayoutFrame

\* one iteration of the loop over the sizes: return size, go on with the next
\* size, or return min_size after the last one
fit_step ==
  /\ layout.pc = "fit"
  /\ layout' =
       IF layout.fits[layout.size]
       THEN [pc |-> "returned", loop |-> "fit", labels |-> layout.labels,
             max_size |-> layout.max_size, min_size |-> layout.min_size,
             result |-> layout.size]
       ELSE IF layout.size - 1 < layout.min_size
       THEN [pc |-> "returned", loop |-> "fit", labels |-> layout.labels,
             max_size |-> layout.max_size, min_size |-> layout.min_size,
             result |-> layout.min_size]
       ELSE [layout EXCEPT !.size = layout.size - 1]
  /\ UNCHANGED LayoutFrame

LayoutNext ==
  \/ results_pdf(1, 1)
  \/ report # NoReport /\ \E call \in EllipsizeCalls : ellipsize_begin(call)
  \/ ellipsize_step
  \/ fit_begin
  \/ fit_step

\* the request that paints the report runs its loops to their end
LayoutSpec ==
  /\ LayoutInit
  /\ [][LayoutNext]_vars
  /\ WF_vars(ellipsize_step)
  /\ WF_vars(fit_step)

----------------------------------------------------------------------------
(* The result views and the report among the scoring requests of           *)
(* competition 2 and close_event.                                          *)

ReadNext ==
  \/ \E j \in JudgeIds, lock \in BOOLEAN :
        \E x \in contestants(2), vals \in FormInputs(2) :
           score_entry(2, j, x, vals, lock)
  \/ \E j \in JudgeIds :
        \E x \in contestants(2), vals \in FormInputs(2) :
           score(2, j, x, vals)
  \/ close_event
  \/ respond
  \/ \E e \in DOMAIN events : results(e, 2)
  \/ \E e \in DOMAIN events : scoring(e, 2)
  \/ \E e \in DOMAIN events : history_results(e, 2)
  \/ \E e \in DOMAIN events : results_pdf(e, 2)

ReadSpec == Init /\ [][ReadNext]_vars

----------------------------------------------------------------------------
(* The active event under overlapping requests.  Every request takes one    *)
(* step per database read or commit; steps of different sessions           *)
(* interleave.                                                              *)

\* the handlers that call _get_active_event: a page that only reads the
\* active event, close_event, and the reset form of settings
EventOps == {"view", "close_event", "settings_reset"}

\* most Event rows the table holds here
MaxEventRows == MaxEvents + 1

\* Event.query.filter_by(status="active").first(): the id of the first
\* active row, 0 for None
first_active(ev) ==
  LET active == {e \in DOMAIN ev : ev[e] = "active"}
  IN  IF active = {} THEN 0
      ELSE CHOOSE e \in active : \A o \in active : e <= o

\* a request starts and _get_active_event reads the Event table
event_begin(s, op) ==
  LET event == first_active(events)
  IN  /\ sessions[s] = NoSession
      /\ IF event # 0 /\ op = "view"
         THEN sessions' = sessions
         ELSE sessions' =
                [sessions EXCEPT ![s] =
                   [NoSession EXCEPT
                      !.pc = IF event = 0 THEN "create" ELSE op,
                      !.a = AdminRequest(op, 0, 0),
                      !.e = event]]
      /\ UNCHANGED <<views, judges, events, scores, req, resp, lock_committed,
                     nops, nadmin>>

\* _get_active_event found no active row: it adds "Main Event" and commits;
\* the handler goes on with the new row
event_create(s) ==
  /\ sessions[s].pc \in {"create", "recreate"}
  /\ Len(events) < MaxEventRows
  /\ events' = Append(events, "active")
  /\ sessions' =
       IF sessions[s].pc = "recreate" \/ sessions[s].a.op = "view"
       THEN [sessions EXCEPT ![s] = NoSession]
       ELSE [sessions EXCEPT ![s].pc = sessions[s].a.op,
                             ![s].e = Len(events) + 1]
  /\ UNCHANGED <<views, judges, scores, req, resp, lock_committed, nops,
                 nadmin>>

\* close_event after its read: the row it read is completed and a new active
\* row is added, in one commit; when the row is gone the UPDATE matches no
\* row and the transaction is rolled back
close_event_commit(s) ==
  LET active_event == sessions[s].e
  IN  /\ sessions[s].pc = "close_event"
      /\ Len(events) < MaxEventRows
      /\ events' = IF active_event \in DOMAIN events
                    THEN Append([events EXCEPT ![active_event] = "completed"],
                                "active")
                    ELSE events
      /\ sessions' = [sessions EXCEPT ![s] = NoSession]
      /\ UNCHANGED <<views, judges, scores, req, resp, lock_committed, nops,
                     nadmin>>

\* settings, reset form: every table is emptied in one commit
settings_reset_commit(s) ==
  /\ sessions[s].pc = "settings_reset"
  /\ events' = <<>>
  /\ scores' = EmptyBag
  /\ judges' = [j \in JudgeIds |-> NoJudge]
  /\ contestant_rows' = <<>>
  /\ criteria_rows' = <<>>
  /\ sessions' = [sessions EXCEPT ![s].pc = "relookup", ![s].e = 0]
  /\ UNCHANGED <<results_rows, judge_breakdown, report, layout, req, resp,
                 lock_committed, nops, nadmin>>

\* settings, after the reset commit: _get_active_event reads the Event table
settings_reset_lookup(s) ==
  /\ sessions[s].pc = "relookup"
  /\ sessions' = IF first_active(events) # 0
                  THEN [sessions EXCEPT ![s] = NoSession]
                  ELSE [sessions EXCEPT ![s].pc = "recreate"]
  /\ UNCHANGED <<views, judges, events, scores, req, resp, lock_committed,
                 nops, nadmin>>

EventNext ==
  \E s \in 1 .. MaxSessions :
     \/ \E op \in EventOps : event_begin(s, op)
     \/ event_create(s)
     \/ close_event_commit(s)
     \/ settings_reset_commit(s)
     \/ settings_reset_lookup(s)

EventSpec == Init /\ [][EventNext]_vars

----------------------------------------------------------------------------
(* Vocabulary of the properties *)

ActiveEvent == get_active_event(events)

ScoringOps == {"score_entry", "score"}

\* some row of contestant (e, c, x) is locked
HasLocked(S, e, c, x) ==
  \E r \in DOMAIN S : OfContestant(r, e, c, x) /\ r.locked

SameCell(r, q) ==
  OfCell(q, r.event_id, r.competition_id, r.judge_id, r.contestant_id,
         r.criteria_id)

\* number of rows of contestant (e, c, x)
CountFor(S, e, c, x) ==
  BagCardinality([r \in {q \in DOMAIN S : OfContestant(q, e, c, x)} |-> S[r]])

\* judgeCount(c) x criteriaCount(c)
Expected(c) ==
  Cardinality(competition_judges_query(judges, c)) * Cardinality(criteria_items(c))

\* cells and raw scores of contestant (e, c, x)
Cells(S, e, c, x) ==
  {[judge_id |-> r.judge_id, criteria_id |-> r.criteria_id, score |-> r.score] :
     r \in {q \in DOMAIN S : OfContestant(q, e, c, x)}}

\* the step inserts no row for (e, c, x) and changes no raw score of it
NoWrite(e, c, x) ==
  /\ Cells(scores', e, c, x) \subseteq Cells(scores, e, c, x)
  /\ CountFor(scores', e, c, x) <= CountFor(scores, e, c, x)

\* the step is a ballot of a judge who had no row for (e, c, x): it only adds
\* locked rows of that judge
BallotInsert(e, c, x) ==
  /\ req'.op = "score" /\ resp' = "ScoresSubmitted"
  /\ req'.competition_id = c /\ req'.contestant_id = x /\ e = ActiveEvent
  /\ ~ \E r \in DOMAIN scores :
          OfContestant(r, e, c, x) /\ r.judge_id = req'.judge_id
  /\ \A r \in DOMAIN scores' :
        OfContestant(r, e, c, x) =>
           \/ r \in DOMAIN scores /\ scores'[r] = scores[r]
           \/ r.judge_id = req'.judge_id /\ r.locked

\* the step locks a row: a locked row of scores' is not a locked row of scores
BecameLocked ==
  \E r \in DOMAIN scores' : r.locked /\ r \notin DOMAIN scores

InRange(k, v) == v >= 0 /\ v <= Criteria[k].max_score

Accepted == {"ScoresSaved", "ScoresLocked", "IncompleteSubmission",
             "ScoresSubmitted"}

\* rows that do not belong to contestant (e, c, x)
Others(S, e, c, x) ==
  [r \in {q \in DOMAIN S : ~ OfContestant(q, e, c, x)} |-> S[r]]

----------------------------------------------------------------------------
(* Properties *)

C3_LockImpliesAllJudgesComplete ==
  [][(req'.op = "score_entry" /\ resp' = "ScoresLocked") =>
        \A j \in competition_judges_query(judges, req'.competition_id),
           k \in criteria_items(req'.competition_id) :
           \E r \in DOMAIN scores' :
              OfCell(r, ActiveEvent, req'.competition_id, j,
                     req'.contestant_id, k)]_vars

\* C4: when a lock request is refused as IncompleteSubmission, no entry
\* changes its locked flag and the values of the request are stored, unlocked.
C4_IncompleteKeepsSaved ==
  [][resp' = "IncompleteSubmission" =>
        /\ ~ BecameLocked
        /\ \A q \in DOMAIN scores : q.locked => q \in DOMAIN scores'
        /\ \A k \in criteria_items(req'.competition_id) :
              \E r \in DOMAIN scores' :
                 /\ OfCell(r, ActiveEvent, req'.competition_id, req'.judge_id,
                           req'.contestant_id, k)
                 /\ r.score = req'.vals[k]
                 /\ ~ r.locked]_vars

\* C4 witness: a refused lock request whose values are in the table
C4_Witness ==
  /\ resp = "IncompleteSubmission"
  /\ \A k \in criteria_items(req.competition_id) :
        \E r \in DOMAIN scores :
           OfCell(r, ActiveEvent, req.competition_id, req.judge_id,
                  req.contestant_id, k) /\ r.score = req.vals[k]

\* C5: a successful lock sets, in one step, the locked flag of every entry of
\* the contestant, for all judges and criteria, and leaves every entry of
\* other contestants, competitions and events as it was.
C5_LockWholeContestantOnly ==
  [][(req'.op = "score_entry" /\ resp' = "ScoresLocked") =>
        /\ \A r \in DOMAIN scores' :
              OfContestant(r, ActiveEvent, req'.competition_id,
                           req'.contestant_id) => r.locked
        /\ Others(scores', ActiveEvent, req'.competition_id, req'.contestant_id)
             = Others(scores, ActiveEvent, req'.competition_id,
                      req'.contestant_id)]_vars

\* C5 witness: a lock succeeded for a contestant that has entries of two judges
C5_Witness ==
  /\ req.op = "score_entry" /\ resp = "ScoresLocked"
  /\ \E r, q \in DOMAIN scores :
        /\ OfContestant(r, ActiveEvent, req.competition_id, req.contestant_id)
        /\ OfContestant(q, ActiveEvent, req.competition_id, req.contestant_id)
        /\ r.judge_id # q.judge_id /\ r.locked /\ q.locked

\* C6: when a lock request and a save for the same contestant overlap, no
\* entry of the contestant has its raw score changed and no entry of it is
\* inserted unlocked after the lock has committed.
C6_NoWriteAfterLockCommit ==
  [][\A t \in lock_committed :
        \A r \in DOMAIN scores' :
           OfContestant(r, t[1], t[2], t[3]) =>
              \/ \E q \in DOMAIN scores : SameCell(r, q) /\ q.score = r.score
              \/ r.locked /\ ~ \E q \in DOMAIN scores : SameCell(r, q)]_vars

\* C7: at most one entry exists per composite key (event, competition, judge,
\* contestant, criterion), also when saves and ballots overlap.
C7_UniqueCompositeKey ==
  \A r \in DOMAIN scores :
     /\ scores[r] = 1
     /\ \A q \in DOMAIN scores : SameCell(r, q) => q = r

\* C7 witness: an overlapping request tried to insert an existing key and was
\* rolled back
C7_Witness ==
  /\ resp = "IntegrityError"
  /\ \E r \in DOMAIN scores :
        OfCell(r, ActiveEvent, req.competition_id, req.judge_id,
               req.contestant_id, r.criteria_id)

\* C8: every stored entry has 0 <= rawScore <= maxScore of its criterion.
C8_StoredScoresInRange ==
  \A r \in DOMAIN scores :
     r.score >= 0 /\ r.score <= Criteria[r.criteria_id].max_score

\* C8 witness: an accepted request stored a raw score equal to maxScore
C8_Witness ==
  /\ resp \in Accepted
  /\ \E r \in DOMAIN scores :
        /\ r.score = Criteria[r.criteria_id].max_score
        /\ r.criteria_id \in DOMAIN req.vals /\ req.vals[r.criteria_id] = r.score
        /\ r.judge_id = req.judge_id

\* C9: a submission with a criterion value outside [0, maxScore] is rejected
\* and leaves the ledger unchanged.
C9_OutOfRangeChangesNothing ==
  [][(req'.op \in ScoringOps
      /\ \E k \in DOMAIN req'.vals : ~ InRange(k, req'.vals[k])) =>
        /\ scores' = scores
        /\ resp' \in {"ValidationFailed", "NotLinked"}]_vars

\* C9 witness: a rejected submission of an assigned judge with one value in
\* range and one value out of range, while the ledger holds entries
C9_Witness ==
  /\ req.op \in ScoringOps /\ resp = "ValidationFailed"
  /\ req.judge_id \in competition_judges_query(judges, req.competition_id)
  /\ \E k \in DOMAIN req.vals : ~ InRange(k, req.vals[k])
  /\ \E k \in DOMAIN req.vals : InRange(k, req.vals[k])
  /\ scores # EmptyBag

\* C10: a write to an unlocked contestant is accepted for every raw score in
\* [0, maxScore], the boundary values 0 and maxScore included.
C10_InRangeAccepted ==
  [][(/\ req'.op \in ScoringOps
      /\ req'.judge_id \in competition_judges_query(judges, req'.competition_id)
      /\ ~ HasLocked(scores, ActiveEvent, req'.competition_id,
                     req'.contestant_id)
      /\ \A k \in DOMAIN req'.vals : InRange(k, req'.vals[k])) =>
        resp' # "ValidationFailed"]_vars

\* C11: no unlock exists. Without a database reset, an entry that is locked
\* is still present, still locked and has the same raw score after every
\* step, judge removal and judge deletion included.
C11_LockedEntriesPermanent ==
  [][\A r \in DOMAIN scores : r.locked => r \in DOMAIN scores']_vars

\* the entries of the ballot of req' all exist and carry its values
BallotStored ==
  \A k \in criteria_items(req'.competition_id) :
     \E r \in DOMAIN scores' :
        /\ OfCell(r, ActiveEvent, req'.competition_id, req'.judge_id,
                  req'.contestant_id, k)
        /\ r.score = req'.vals[k]

\* C12: a judge ballot is all-or-nothing. After the call either an entry
\* exists for every criterion of the competition for (event, competition,
\* judge, contestant) with the values of the call, or the ledger is as it was
\* before the call; entries for a subset of the criteria are never left.
C12_BallotAllOrNothing ==
  [][req'.op = "score" => (BallotStored \/ scores' = scores)]_vars

\* C12 witness: a ballot for a competition with two criteria was stored
C12_Witness ==
  /\ req.op = "score" /\ resp = "ScoresSubmitted"
  /\ Cardinality(criteria_items(req.competition_id)) = 2
  /\ \A k \in criteria_items(req.competition_id) :
        \E r \in DOMAIN scores :
           /\ OfCell(r, ActiveEvent, req.competition_id, req.judge_id,
                     req.contestant_id, k)
           /\ r.score = req.vals[k] /\ r.locked

\* judge j has an entry for every criterion of c for contestant (e, c, x)
JudgeComplete(S, e, c, j, x) ==
  \A k \in criteria_items(c) : \E r \in DOMAIN S : OfCell(r, e, c, j, x, k)

\* the form of request a passes the validators of its fields
WellFormed(a) ==
  \A k \in criteria_items(a.competition_id) :
     a.vals[k] # 0 /\ InRange(k, a.vals[k])

\* the step handles a ballot of a judge who has an entry for every criterion
ResubmittedBallot ==
  /\ req'.op = "score"
  /\ JudgeComplete(scores, ActiveEvent, req'.competition_id, req'.judge_id,
                   req'.contestant_id)

\* C13 (as stated): a judge ballot for a contestant for whom the judge
\* already has an entry for every criterion is rejected as AlreadySubmitted
\* and mutates nothing.
C13_ResubmitAlreadySubmitted ==
  [][ResubmittedBallot =>
        resp' = "AlreadySubmitted" /\ scores' = scores]_vars

\* C13 (amended): such a ballot mutates nothing; it is rejected as
\* AlreadySubmitted when the judge is still linked to the competition and the
\* submitted values pass validation, and as NotLinked or ValidationFailed
\* otherwise.
C13_ResubmitMutatesNothing ==
  [][ResubmittedBallot =>
        /\ scores' = scores
        /\ resp' \in {"AlreadySubmitted", "NotLinked", "ValidationFailed"}
        /\ (req'.competition_id \in judge_competition_ids(judges[req'.judge_id])
            /\ WellFormed(req'))
           => resp' = "AlreadySubmitted"]_vars

\* C13 witness: a well-formed ballot was rejected as AlreadySubmitted for a
\* judge who has an entry for every criterion
C13_Witness ==
  /\ req.op = "score" /\ resp = "AlreadySubmitted"
  /\ WellFormed(req)
  /\ JudgeComplete(scores, ActiveEvent, req.competition_id, req.judge_id,
                   req.contestant_id)

\* the step handles a well-formed ballot of a judge linked to the competition
LinkedBallot ==
  /\ req'.op = "score"
  /\ req'.competition_id \in judge_competition_ids(judges[req'.judge_id])
  /\ WellFormed(req')

\* C14: a judge ballot is rejected as AlreadySubmitted exactly when the judge
\* already has an entry for every criterion for the contestant; a judge who
\* has entries for only some or none of the criteria is not rejected as
\* AlreadySubmitted, whatever the locked flags of other judges' entries.
C14_AlreadySubmittedIffComplete ==
  [][LinkedBallot =>
        (resp' = "AlreadySubmitted"
           <=> JudgeComplete(scores, ActiveEvent, req'.competition_id,
                             req'.judge_id, req'.contestant_id))]_vars

\* the step handles a save or ballot that carries, for a contestant without
\* locked entries, the values its cells already hold
SameValuesResubmitted ==
  /\ req'.op \in ScoringOps /\ ~ req'.lock
  /\ ~ HasLocked(scores, ActiveEvent, req'.competition_id, req'.contestant_id)
  /\ \A k \in criteria_items(req'.competition_id) :
        \E r \in DOMAIN scores :
           /\ OfCell(r, ActiveEvent, req'.competition_id, req'.judge_id,
                     req'.contestant_id, k)
           /\ r.score = req'.vals[k]

\* C15: idempotence of save. Re-submitting, for an unlocked contestant, the
\* same cells with the same values leaves the ledger entries (keys, raw
\* scores, locked flags) and every row of the computed results unchanged.
C15_SaveIdempotent ==
  [][SameValuesResubmitted =>
        /\ scores' = scores
        /\ \A e \in DOMAIN events, c \in Competitions :
              calculate_results(scores', contestant_rows, criteria_rows, e, c)
                = calculate_results(scores, contestant_rows, criteria_rows, e, c)]_vars

\* C15 witness: the second of two accepted saves of competition 2, whose only
\* valid value is 1, left the single unlocked entry in place
C15_Witness ==
  /\ req.op = "score_entry" /\ resp = "ScoresSaved" /\ req.competition_id = 2
  /\ nops = 2 /\ nadmin = 0
  /\ BagCardinality(scores) = 1
  /\ \A r \in DOMAIN scores : ~ r.locked /\ r.score = 1

\* the contestant a result row is about
RowContestant(row) ==
  CHOOSE x \in DOMAIN contestant_rows : contestant_rows[x].name = row.contestant

\* the entries of all judges for contestant x and criterion k in the ledger
\* the results were computed from
Entries(x, k) ==
  {r \in DOMAIN scores :
     /\ OfContestant(r, results_rows.event_id, results_rows.competition_id, x)
     /\ r.criteria_id = k}

RECURSIVE RawSum(_)
RawSum(rows) ==
  IF rows = {} THEN 0
  ELSE LET r == CHOOSE q \in rows : TRUE IN r.score + RawSum(rows \ {r})

\* avg is the mean of the raw scores of rows, 0 when there are none
IsMean(avg, rows) ==
  IF rows = {} THEN avg.n = 0
  ELSE avg.n * Cardinality(rows) = RawSum(rows) * avg.d

\* w = (avg / max_score) * weight when max_score > 0, else 0
IsWeighted(w, avg, criteria_item) ==
  IF criteria_item.max_score > 0
  THEN w.n * avg.d * criteria_item.max_score
         = avg.n * criteria_item.weight * w.d
  ELSE w.n = 0

ResultCriteria == criteria_query(criteria_rows, results_rows.competition_id)

Hundred == Frac(100, 1)

\* C16: the results give, for every contestant and criterion, avgRaw = the
\* mean of the raw scores of all judges' entries (0 without entries) and
\* weighted = (avgRaw / maxScore) * weight when maxScore > 0, else 0; with
\* criteria (max 10, weight 60) and (max 5, weight 40) and averages 8 and 4
\* the row has totalWeighted 80 and totalRaw 12.
C16_AveragesAndWeights ==
  results_rows # NoResults =>
    /\ \A x \in DOMAIN contestant_rows :
          contestant_rows[x].competition_id = results_rows.competition_id =>
             \E i \in DOMAIN results_rows.rows :
                results_rows.rows[i].contestant = contestant_rows[x].name
    /\ \A i \in DOMAIN results_rows.rows :
          LET row == results_rows.rows[i]
              x   == RowContestant(row)
          IN  /\ \A p \in DOMAIN ResultCriteria :
                    LET k == ResultCriteria[p]
                    IN  /\ IsMean(row.criteria_raw_totals[k], Entries(x, k))
                        /\ IsWeighted(row.criteria_totals[k],
                                      row.criteria_raw_totals[k],
                                      criteria_rows[k])
              /\ (/\ criteria_rows[1].max_score = 10
                  /\ criteria_rows[1].weight = 60
                  /\ criteria_rows[2].max_score = 5
                  /\ criteria_rows[2].weight = 40
                  /\ row.criteria_raw_totals[1] = Frac(8, 1)
                  /\ row.criteria_raw_totals[2] = Frac(4, 1))
                 => row.total = Frac(80, 1) /\ row.total_raw = Frac(12, 1)

\* C16 witness: results with a row of averages 8 and 4 under criteria
\* (10, 60) and (5, 40), a row without entries and a row whose average is
\* the mean of two different scores
C16_Witness ==
  /\ results_rows.competition_id = 1
  /\ criteria_rows[1].weight = 60 /\ criteria_rows[2].max_score = 5
  /\ \E i, j, m \in DOMAIN results_rows.rows :
        /\ results_rows.rows[i].criteria_raw_totals[1] = Frac(8, 1)
        /\ results_rows.rows[i].criteria_raw_totals[2] = Frac(4, 1)
        /\ results_rows.rows[i].total = Frac(80, 1)
        /\ Entries(RowContestant(results_rows.rows[j]), 1) = {}
        /\ results_rows.rows[j].total = Frac(0, 1)
        /\ results_rows.rows[m].criteria_raw_totals[1] = Frac(9, 1)
        /\ results_rows.rows[m].criteria_raw_totals[2] = Frac(9, 2)

\* C17: totalWeighted of every row is min(sum of the weighted values, 100):
\* never above 100 and exactly 100 when the sum is above 100 (two criteria of
\* weight 70 and max 10, both scored 10, give 100); totalRaw is the unclamped
\* sum of the averages, also when it is above 100.
C17_ClampedTotal ==
  \A i \in DOMAIN results_rows.rows :
     LET row == results_rows.rows[i]
         sum_weighted == accumulate(row.criteria_totals, ResultCriteria)
     IN  /\ ~ FracLess(Hundred, row.total)
         /\ FracLess(Hundred, sum_weighted) => row.total = Hundred
         /\ ~ FracLess(Hundred, sum_weighted) => row.total = sum_weighted
         /\ row.total_raw = accumulate(row.criteria_raw_totals, ResultCriteria)
         /\ (/\ \A k \in {1, 2} : /\ criteria_rows[k].weight = 70
                                  /\ criteria_rows[k].max_score = 10
                                  /\ row.criteria_raw_totals[k] = Frac(10, 1))
            => row.total = Hundred

\* C17 witness: a row whose weighted values add up to 140 and whose averages
\* add up to 120 has totalWeighted 100 and totalRaw 120
C17_Witness ==
  \E i \in DOMAIN results_rows.rows :
     /\ accumulate(results_rows.rows[i].criteria_totals, ResultCriteria)
          = Frac(140, 1)
     /\ results_rows.rows[i].total = Hundred
     /\ results_rows.rows[i].total_raw = Frac(120, 1)

\* C18: the rows are sorted by totalWeighted in descending order and two
\* contestants with equal totalWeighted appear in contestant-name order.
C18_SortedTiesByName ==
  \A i, j \in DOMAIN results_rows.rows :
     i < j =>
       /\ ~ FracLess(results_rows.rows[i].total, results_rows.rows[j].total)
       /\ results_rows.rows[i].total = results_rows.rows[j].total
            => results_rows.rows[i].contestant < results_rows.rows[j].contestant

----------------------------------------------------------------------------
\* the judges of the breakdown on display
BreakdownJudges ==
  {judge_breakdown.items[i].judge : i \in DOMAIN judge_breakdown.items}

\* judge j is linked to competition c
Assigned(j, c) ==
  /\ judges[j] # NoJudge
  /\ (judges[j].competition_id = c \/ c \in judges[j].competitions)

\* judge j has an entry in event e and competition c
HasEntry(j, e, c) ==
  \E r \in DOMAIN scores :
     r.judge_id = j /\ r.event_id = e /\ r.competition_id = c

\* C19: every judge breakdown, of the scoring view and of the history view,
\* contains exactly the assigned judges with at least one entry in its event
\* and competition; a judge without submissions is not in it.
C19_BreakdownJudgesHaveEntries ==
  judge_breakdown # NoBreakdown =>
    BreakdownJudges =
      {j \in JudgeIds :
         /\ Assigned(j, judge_breakdown.competition_id)
         /\ HasEntry(j, judge_breakdown.event_id,
                     judge_breakdown.competition_id)}

----------------------------------------------------------------------------
\* C20: in every reachable state exactly one Event row has status "active",
\* under any interleaving of get-or-create calls, close_event requests and
\* database resets.
C20_ExactlyOneActiveEvent ==
  Cardinality({e \in DOMAIN events : events[e] = "active"}) = 1

----------------------------------------------------------------------------
\* rows of S whose event is not active in the Event table ev
CompletedRows(S, ev) ==
  [r \in {q \in DOMAIN S : ev[q.event_id] # "active"} |-> S[r]]

\* C21: a scoring write creates, modifies or locks only entries of the event
\* that is active; the entries of every completed event keep their raw scores
\* and locked flags; after close_event the newly active event has no entries.
C21_WritesOnlyActiveEvent ==
  [][/\ req'.op \in ScoringOps =>
          CompletedRows(scores', events') = CompletedRows(scores, events')
     /\ req'.op = "close_event" =>
          /\ scores' = scores
          /\ \A r \in DOMAIN scores' : events'[r.event_id] # "active"]_vars

----------------------------------------------------------------------------
\* judges linked to competition c by the legacy column, the link table or both
LinkedJudges(c) == {j \in JudgeIds : Assigned(j, c)}

\* the request carries valid values for an existing contestant
ValidEntry(a) ==
  /\ a.contestant_id \in contestants(a.competition_id)
  /\ \A k \in criteria_items(a.competition_id) :
        a.vals[k] # 0 /\ InRange(k, a.vals[k])

\* C22: the effective competition set of a judge is the union of the link
\* table and the legacy column.  A ballot for competition c is accepted only
\* if c is in that union and is refused as not linked only if it is not; the
\* tabulator may choose exactly the judges linked by either relation, and the
\* lock count takes each of them once.
C22_EffectiveCompetitionSet ==
  [][LET c == req'.competition_id
         j == req'.judge_id
         x == req'.contestant_id
         expected == Cardinality(LinkedJudges(c)) * Cardinality(criteria_items(c))
     IN  /\ (req'.op = "score" /\ resp' = "ScoresSubmitted") => j \in LinkedJudges(c)
         /\ (req'.op = "score" /\ resp' = "NotLinked") => j \notin LinkedJudges(c)
         /\ (req'.op = "score_entry" /\ resp' \in Accepted) => j \in LinkedJudges(c)
         /\ (req'.op = "score_entry" /\ resp' = "ValidationFailed"
               /\ ValidEntry(req')) => j \notin LinkedJudges(c)
         /\ (req'.op = "score_entry" /\ resp' = "IncompleteSubmission") =>
               CountFor(scores', ActiveEvent, c, x) < expected
         /\ (req'.op = "score_entry" /\ resp' = "ScoresLocked") =>
               CountFor(scores', ActiveEvent, c, x) >= expected]_vars

\* a lock request is accepted for a contestant of a competition whose judges
\* are linked by both relations at once
C22_Witness ==
  /\ req.op = "score_entry" /\ resp = "ScoresLocked"
  /\ \E j \in LinkedJudges(req.competition_id) :
        /\ judges[j].competition_id = req.competition_id
        /\ req.competition_id \in judges[j].competitions
        /\ judges[j].competitions # {req.competition_id}
  /\ CountFor(scores, ActiveEvent, req.competition_id, req.contestant_id) =
       Cardinality(LinkedJudges(req.competition_id))
         * Cardinality(criteria_items(req.competition_id))

----------------------------------------------------------------------------
\* the step is a result view, a judge breakdown or a PDF request
ViewStep ==
  \/ results_rows' # results_rows
  \/ judge_breakdown' # judge_breakdown
  \/ report' # report

\* C23: computing the results, building the judge breakdown and the PDF
\* request leave every entry (key, raw score, locked flag), every event and
\* every judge link unchanged, at any point of a scoring sequence.
C23_ViewsReadOnly ==
  [][ViewStep => /\ scores' = scores
                 /\ events' = events
                 /\ judges' = judges
                 /\ lock_committed' = lock_committed]_vars

\* report and results were made before the first entry was saved (the totals
\* they show are zero), a lock request has been accepted since, and a judge
\* breakdown has been built
C23_Witness ==
  /\ events = <<"active">>
  /\ req.op = "score_entry" /\ resp = "ScoresLocked"
  /\ report # NoReport
  /\ report.body # <<>>
  /\ report.body[1].total = <<"0", ".", "0", "0", "0", "0">>
  /\ results_rows # NoResults
  /\ results_rows.rows # <<>>
  /\ results_rows.rows[1].total = Frac(0, 1)
  /\ judge_breakdown # NoBreakdown

----------------------------------------------------------------------------
\* the text ends with the ellipsis marker (no label and no number does)
Ellipsized(text) ==
  /\ Len(text) >= 3
  /\ SubSeq(text, Len(text) - 2, Len(text)) = <<".", ".", ".">>

\* the columns of the header of the report on display
HeaderColumns == IF report = NoReport THEN {} ELSE DOMAIN report.header

\* C24: headers are not truncated before the font has been reduced: a header
\* line is ellipsized only when the header font size returned by the fit
\* search is the floor size 6.
C24_TruncatedOnlyAtFloor ==
  \A i \in HeaderColumns :
     (Ellipsized(report.header[i].line_one)
        \/ Ellipsized(report.header[i].line_two)) => report.header_font = 6

----------------------------------------------------------------------------
\* rendered width of a header line at the header font of the report
HeaderLineWidth(line) ==
  Frac(units(line, "B") * report.header_font * 127, 1)

\* C25: each header line the layout emits (first and second line, at the
\* header font size chosen by the fit search) is not wider than its column.
C25_HeaderLinesFitColumn ==
  \A i \in HeaderColumns :
     /\ ~ FracLess(report.header[i].width,
                   HeaderLineWidth(report.header[i].line_one))
     /\ ~ FracLess(report.header[i].width,
                   HeaderLineWidth(report.header[i].line_two))

\* a label wider than its column was laid out: its first line is cut, its
\* second line is not empty
C25_Witness ==
  \E i \in HeaderColumns :
     /\ FracLess(report.header[i].width, HeaderLineWidth(report.header[i].text))
     /\ Ellipsized(report.header[i].line_one)
     /\ report.header[i].line_two # <<>>

----------------------------------------------------------------------------
\* the text fits column i of the header at the header font
FitsColumn(text, i) ==
  ~ FracLess(report.header[i].width, HeaderLineWidth(text))

\* the two lines of the word-boundary partition after the first k words
Partition(words, k) ==
  <<join(SubSeq(words, 1, k)), join(SubSeq(words, k + 1, Len(words)))>>

\* width of the wider line of the partition, in thousandths of the font size
LargerLine(words, k) ==
  LET l == units(Partition(words, k)[1], "B")
      r == units(Partition(words, k)[2], "B")
  IN  IF l < r THEN r ELSE l

\* the smallest k whose partition has the narrowest larger line
MinMaxK(words) ==
  CHOOSE k \in 1 .. Len(words) - 1 :
     \A o \in 1 .. Len(words) - 1 :
        /\ LargerLine(words, k) <= LargerLine(words, o)
        /\ LargerLine(words, k) = LargerLine(words, o) => k <= o

\* line is whole, or - when whole is too wide for column i - a prefix of
\* whole followed by the ellipsis marker
WholeOrCut(line, whole, i) ==
  IF FitsColumn(whole, i) THEN line = whole
  ELSE /\ Ellipsized(line)
       /\ Len(line) - 3 <= Len(whole)
       /\ SubSeq(line, 1, Len(line) - 3) = SubSeq(whole, 1, Len(line) - 3)

\* C26 (as stated): a label that fits on one line is returned unsplit with an
\* empty second line; a label of two or more words that does not fit is
\* returned as the word-boundary partition (first k words, the rest) whose
\* larger line is narrowest, the smallest k among ties.
C26_MinMaxPartition ==
  \A i \in HeaderColumns :
     LET h == report.header[i]
         words == split(h.text)
     IN  IF FitsColumn(h.text, i)
         THEN h.line_one = h.text /\ h.line_two = <<>>
         ELSE Len(words) >= 2 =>
                /\ h.line_one = Partition(words, MinMaxK(words))[1]
                /\ h.line_two = Partition(words, MinMaxK(words))[2]

\* C26 (amended): as above, but each of the two lines of the chosen partition
\* is returned whole only if it fits the column; a line that does not fit is
\* returned cut, with the ellipsis marker.
C26_MinMaxPartitionCut ==
  \A i \in HeaderColumns :
     LET h == report.header[i]
         words == split(h.text)
     IN  IF FitsColumn(h.text, i)
         THEN h.line_one = h.text /\ h.line_two = <<>>
         ELSE Len(words) >= 2 =>
                /\ WholeOrCut(h.line_one, Partition(words, MinMaxK(words))[1], i)
                /\ WholeOrCut(h.line_two, Partition(words, MinMaxK(words))[2], i)

\* a label of four words that does not fit was split after its second word
C26_Witness ==
  \E i \in HeaderColumns :
     LET h == report.header[i]
         words == split(h.text)
     IN  /\ ~ FitsColumn(h.text, i)
         /\ Len(words) = 4
         /\ MinMaxK(words) = 2
         /\ h.line_one = Partition(words, 2)[1]
         /\ h.line_two = Partition(words, 2)[2]

----------------------------------------------------------------------------
\* the rows of the body of the report on display
BodyRows == IF report = NoReport THEN {} ELSE DOMAIN report.body

\* the text fits the contestant column (40 mm) at the body font of the report
FitsContestantCell(text) ==
  units(text, "") * report.body_font * 127 <= 40 * 360000

\* C27: cell truncation returns the text unchanged when it fits the width;
\* otherwise it returns the longest prefix of the text such that the prefix
\* followed by "..." fits, followed by "...", and never less than "...".
C27_LongestPrefixWithEllipsis ==
  \A i \in BodyRows :
     LET text == results_rows.rows[i].contestant
         cell == report.body[i].contestant
     IN  IF FitsContestantCell(text) THEN cell = text
         ELSE /\ Ellipsized(cell)
              /\ \E n \in 0 .. Len(text) :
                    /\ cell = SubSeq(text, 1, n) \o <<".", ".", ".">>
                    /\ n > 0 => FitsContestantCell(cell)
                    /\ \A m \in n + 1 .. Len(text) :
                          ~ FitsContestantCell(SubSeq(text, 1, m)
                                                 \o <<".", ".", ".">>)

\* a contestant name wider than its cell was cut to a non-empty prefix and
\* the marker, in a report that also has a name that fits
C27_Witness ==
  /\ \E i \in BodyRows :
        /\ ~ FitsContestantCell(results_rows.rows[i].contestant)
        /\ Len(report.body[i].contestant) > 3
        /\ Ellipsized(report.body[i].contestant)
  /\ \E i \in BodyRows :
        /\ FitsContestantCell(results_rows.rows[i].contestant)
        /\ report.body[i].contestant = results_rows.rows[i].contestant

----------------------------------------------------------------------------
\* the decimal digits
DigitChars == {"0", "1", "2", "3", "4", "5", "6", "7", "8", "9"}

\* the number a text of decimal digits stands for
RECURSIVE TextValue(_)
TextValue(text) ==
  IF text = <<>> THEN 0
  ELSE TextValue(SubSeq(text, 1, Len(text) - 1)) * 10
         + (CHOOSE d \in 0 .. 9 : ToString(d) = text[Len(text)])

\* text is a decimal number with exactly d digits after its one point
HasDecimals(text, d) ==
  /\ Len(text) >= d + 2
  /\ text[Len(text) - d] = "."
  /\ \A p \in DOMAIN text : p # Len(text) - d => text[p] \in DigitChars

\* text is "w(r)" where w and r are numbers with exactly d decimals each
PairHasDecimals(text, d) ==
  \E p \in DOMAIN text :
     /\ text[p] = "("
     /\ text[Len(text)] = ")"
     /\ HasDecimals(SubSeq(text, 1, p - 1), d)
     /\ HasDecimals(SubSeq(text, p + 1, Len(text) - 1), d)

\* C28: in the report body the rank cell of the i-th row is i, each criterion
\* cell renders its two values with exactly 4 decimal places, and the total
\* cell renders the total with exactly 2 decimal places.
C28_BodyCellFormats ==
  \A i \in BodyRows :
     /\ report.body[i].rank # <<>>
     /\ \A p \in DOMAIN report.body[i].rank :
           report.body[i].rank[p] \in DigitChars
     /\ TextValue(report.body[i].rank) = i
     /\ \A k \in DOMAIN report.body[i].criteria :
           PairHasDecimals(report.body[i].criteria[k], 4)
     /\ HasDecimals(report.body[i].total, 2)

----------------------------------------------------------------------------
\* number of criteria of the competition of the report on display
ReportCriteriaCount ==
  Cardinality({k \in DOMAIN criteria_rows :
                 criteria_rows[k].competition_id = results_rows.competition_id})

\* number of result rows of the report on display
ReportRowCount == Len(results_rows.rows)

\* C29: the report is landscape if and only if the criteria count is greater
\* than 4 or the row count is greater than 15, and portrait otherwise, for
\* every combination of the two counts, zero criteria included.
C29_LandscapeIffWide ==
  report # NoReport =>
    /\ report.orientation \in {"L", "P"}
    /\ report.orientation = "L"
         <=> (ReportCriteriaCount > 4 \/ ReportRowCount > 15)

\* a report without criteria and with more than 15 rows is landscape
C29_Witness ==
  /\ report # NoReport
  /\ ReportCriteriaCount = 0
  /\ ReportRowCount > 15
  /\ report.orientation = "L"

----------------------------------------------------------------------------
\* C30: an entry becomes locked only through the explicit lock action taken
\* when the contestant is complete: every entry a step locks belongs to the
\* contestant of a successful tabulator lock request whose entry count equals
\* judgeCount x criteriaCount at that moment; no other operation, in
\* particular a single judge's ballot, produces a locked entry.
C30_LockedOnlyByLockAction ==
  [][\A r \in DOMAIN scores' :
        (r.locked /\ r \notin DOMAIN scores) =>
           /\ req'.op = "score_entry"
           /\ req'.lock
           /\ resp' = "ScoresLocked"
           /\ r.competition_id = req'.competition_id
           /\ r.contestant_id = req'.contestant_id
           /\ CountFor(scores', r.event_id, r.competition_id, r.contestant_id)
                = Expected(r.competition_id)]_vars

----------------------------------------------------------------------------
\* C31: in every reachable state all entries of one (event, competition,
\* contestant) have the same locked flag: all unlocked or all locked.
C31_UniformLockedFlag ==
  \A r \in DOMAIN scores, q \in DOMAIN scores :
     OfContestant(q, r.event_id, r.competition_id, r.contestant_id) =>
        q.locked = r.locked

----------------------------------------------------------------------------
\* C32: a tabulator save or lock request for a contestant that already has a
\* locked entry is rejected before any write and changes no data: the score
\* table after the request is the score table before it, even when the
\* request names a judge who has no entry for that contestant.
C32_LockedContestantRejected ==
  [][(req'.op = "score_entry"
      /\ HasLocked(scores, ActiveEvent, req'.competition_id,
                   req'.contestant_id))
       => /\ resp' \in {"Locked", "ValidationFailed"}
          /\ scores' = scores
          /\ lock_committed' = lock_committed]_vars

\* a valid tabulator request for a judge without entries for the contestant
\* was rejected as Locked because another judge's entries are locked
C32_Witness ==
  /\ req.op = "score_entry" /\ resp = "Locked"
  /\ WellFormed(req)
  /\ \E r \in DOMAIN scores :
        /\ OfContestant(r, ActiveEvent, req.competition_id, req.contestant_id)
        /\ r.locked
        /\ r.judge_id # req.judge_id
  /\ ~ \E r \in DOMAIN scores :
          /\ OfContestant(r, ActiveEvent, req.competition_id, req.contestant_id)
          /\ r.judge_id = req.judge_id

----------------------------------------------------------------------------
\* contestant (e, c, x) is fully locked in S: every assigned judge has an
\* entry for every criterion, and every entry of the contestant is locked
FullyLocked(J, S, e, c, x) ==
  /\ \A j \in competition_judges_query(J, c), k \in criteria_items(c) :
        \E r \in DOMAIN S : OfCell(r, e, c, j, x, k)
  /\ \A r \in DOMAIN S : OfContestant(r, e, c, x) => r.locked

\* a form that passes the validators of competition c; the values of a
\* request enter no other test of the two handlers
ValidForm(c) == CHOOSE vals \in FormInputs(c) : fields_valid(c, vals)

\* the score tables one scoring request for contestant (c, x) leads to from S
AfterOneRequest(J, S, e, c, x) ==
  {score_entry_result(J, S, e, TabRequest(c, j, x, ValidForm(c), lock)).scores :
     j \in JudgeIds, lock \in BOOLEAN}
  \cup
  {score_result(J, S, e, BallotRequest(c, j, x, ValidForm(c))).scores :
     j \in JudgeIds}

\* some sequence of at most n scoring requests leads from S to a table in
\* which contestant (e, c, x) is fully locked
RECURSIVE CanLock(_, _, _, _, _, _)
CanLock(J, S, e, c, x, n) ==
  \/ FullyLocked(J, S, e, c, x)
  \/ /\ n > 0
     /\ \E T \in AfterOneRequest(J, S, e, c, x) \ {S} :
           CanLock(J, T, e, c, x, n - 1)

\* one request per judge and one lock request: more requests than any
\* sequence needs that writes for each judge once and then locks
LockDepth == NumJudges + 1

\* C33: from every reachable state, with the judges, contestants and criteria
\* as they are, each contestant of the active event can still reach the fully
\* locked state by some sequence of tabulator saves, lock requests and judge
\* ballots.
C33_FullyLockedReachable ==
  \A c \in Competitions : \A x \in contestants(c) :
     CanLock(judges, scores, ActiveEvent, c, x, LockDepth)

----------------------------------------------------------------------------
\* the tabulator request a, with lock requested, names an assigned judge and
\* passes validation, its contestant has no locked entry and every other
\* assigned judge has an entry for every criterion: the request supplies the
\* last missing cells
SuppliesLastCells(a) ==
  /\ a.op = "score_entry" /\ a.lock
  /\ a.judge_id \in LinkedJudges(a.competition_id)
  /\ ValidEntry(a)
  /\ ~ HasLocked(scores, ActiveEvent, a.competition_id, a.contestant_id)
  /\ ~ JudgeComplete(scores, ActiveEvent, a.competition_id, a.judge_id,
                     a.contestant_id)
  /\ \A j \in LinkedJudges(a.competition_id) \ {a.judge_id} :
        JudgeComplete(scores, ActiveEvent, a.competition_id, j,
                      a.contestant_id)

\* C34: a tabulator request with lock requested first upserts its own values
\* and then evaluates completeness over the table including them: if the
\* request supplies the last missing cells, the same request locks the
\* contestant, and the locked entries of its judge carry its values.
C34_LockCountsOwnValues ==
  [][SuppliesLastCells(req') =>
        /\ resp' = "ScoresLocked"
        /\ \A k \in criteria_items(req'.competition_id) :
              \E r \in DOMAIN scores' :
                 /\ OfCell(r, ActiveEvent, req'.competition_id, req'.judge_id,
                           req'.contestant_id, k)
                 /\ r.locked
                 /\ r.score = req'.vals[k]
                 /\ scores'[r] = 1]_vars

\* the second of two requests, a lock request of a second judge, locked a
\* contestant of competition 1 and its values are in the table
C34_Witness ==
  /\ req.op = "score_entry" /\ req.lock /\ resp = "ScoresLocked"
  /\ nops = 2 /\ nadmin = 0
  /\ req.competition_id = 1
  /\ \E r \in DOMAIN scores :
        /\ OfContestant(r, ActiveEvent, 1, req.contestant_id)
        /\ r.judge_id # req.judge_id /\ r.locked
  /\ \A k \in criteria_items(1) :
        \E r \in DOMAIN scores :
           /\ OfCell(r, ActiveEvent, 1, req.judge_id, req.contestant_id, k)
           /\ r.locked /\ r.score = req.vals[k]
  /\ \E k \in criteria_items(1) : req.vals[k] = 2

----------------------------------------------------------------------------
\* r is an entry of judge j for contestant (e, c, x)
OwnEntry(r, e, c, j, x) == OfContestant(r, e, c, x) /\ r.judge_id = j

\* the entries of S that are not entries of judge j for contestant (e, c, x)
ForeignEntries(S, e, c, j, x) ==
  [r \in {q \in DOMAIN S : ~ OwnEntry(q, e, c, j, x)} |-> S[r]]

\* the cells and raw scores of those entries, whatever their locked flags
ForeignScores(S, e, c, j, x) ==
  {<<[r EXCEPT !.locked = FALSE], S[r]>> :
     r \in DOMAIN ForeignEntries(S, e, c, j, x)}

\* C35: a successful tabulator save for (judge J, contestant C) inserts or
\* overwrites only the entries of judge J for contestant C in the active
\* event, and a successful lock changes only locked flags: the raw scores of
\* all other judges' and contestants' entries are unchanged by either.
C35_WritesOnlyOwnEntries ==
  [][req'.op = "score_entry" =>
        LET c == req'.competition_id
            j == req'.judge_id
            x == req'.contestant_id
        IN  /\ resp' \in {"ScoresSaved", "IncompleteSubmission"} =>
                 ForeignEntries(scores', ActiveEvent, c, j, x)
                   = ForeignEntries(scores, ActiveEvent, c, j, x)
            /\ resp' = "ScoresLocked" =>
                 ForeignScores(scores', ActiveEvent, c, j, x)
                   = ForeignScores(scores, ActiveEvent, c, j, x)]_vars

\* a lock succeeded for a contestant with an entry of another judge whose raw
\* score differs from the value of the request for the same criterion
C35_Witness ==
  /\ req.op = "score_entry" /\ resp = "ScoresLocked"
  /\ \E r \in DOMAIN scores :
        /\ OfContestant(r, ActiveEvent, req.competition_id, req.contestant_id)
        /\ r.judge_id # req.judge_id
        /\ r.locked
        /\ r.score # req.vals[r.criteria_id]

----------------------------------------------------------------------------
\* the entries of judge j for contestant (e, c, x), with their multiplicity
OwnEntries(S, e, c, j, x) ==
  [r \in {q \in DOMAIN S : OwnEntry(q, e, c, j, x)} |-> S[r]]

\* C36: when two ballots of one judge for one contestant overlap, both having
\* passed the already-submitted check, at most one is stored: the commit that
\* finds entries of the judge for the contestant fails and changes nothing,
\* the commit that finds none stores exactly one entry per criterion, each
\* with the value of its own request.
C36_OneOfTwoBallotsStored ==
  [][(req'.op = "score" /\ resp' \in {"ScoresSubmitted", "IntegrityError"}) =>
        LET c == req'.competition_id
            j == req'.judge_id
            x == req'.contestant_id
        IN  IF OwnEntries(scores, ActiveEvent, c, j, x) # EmptyBag
            THEN resp' = "IntegrityError" /\ scores' = scores
            ELSE /\ resp' = "ScoresSubmitted"
                 /\ OwnEntries(scores', ActiveEvent, c, j, x)
                      = SetToBag({ScoreRow(ActiveEvent, c, j, x, k,
                                           req'.vals[k], TRUE) :
                                    k \in criteria_items(c)})]_vars

\* of two overlapping ballots of one judge for a contestant of competition 1,
\* the second to commit failed: the table holds one entry per criterion, and
\* a value that is not the value of the failed ballot
C36_Witness ==
  /\ req.op = "score" /\ resp = "IntegrityError"
  /\ req.competition_id = 1
  /\ nops = 2
  /\ \A s \in DOMAIN sessions : sessions[s] = NoSession
  /\ BagCardinality(OwnEntries(scores, ActiveEvent, 1, req.judge_id,
                               req.contestant_id))
       = Cardinality(criteria_items(1))
  /\ \E r \in DOMAIN scores :
        /\ OwnEntry(r, ActiveEvent, 1, req.judge_id, req.contestant_id)
        /\ r.locked
        /\ r.score # req.vals[r.criteria_id]

----------------------------------------------------------------------------
\* C37: with a fixed criteria set, every (event, competition, judge,
\* contestant) has either no entries or exactly one entry for every criterion
\* of the competition, so the number of entries of a contestant is a multiple
\* of the number of criteria.
C37_AllCriteriaOrNone ==
  \A e \in DOMAIN events, c \in Competitions :
     \A x \in contestants(c) :
        /\ \A j \in JudgeIds :
              LET n == BagCardinality(OwnEntries(scores, e, c, j, x))
              IN  \/ n = 0
                  \/ /\ JudgeComplete(scores, e, c, j, x)
                     /\ n = Cardinality(criteria_items(c))
        /\ CountFor(scores, e, c, x) % Cardinality(criteria_items(c)) = 0

\* in a competition with two criteria a contestant has the entries of one
\* judge for both criteria and none of another assigned judge
C37_Witness ==
  \E c \in Competitions : \E x \in contestants(c) :
     /\ Cardinality(criteria_items(c)) = 2
     /\ \E j \in LinkedJudges(c) :
           JudgeComplete(scores, ActiveEvent, c, j, x)
     /\ \E j \in LinkedJudges(c) :
           OwnEntries(scores, ActiveEvent, c, j, x) = EmptyBag
     /\ CountFor(scores, ActiveEvent, c, x) = 2

----------------------------------------------------------------------------
\* criteria and row counts on both sides of the thresholds of the font rule
FontCriteriaCounts == {0, 1, 6, 7, 8, 9, 10}
FontRowCounts == {0, 20, 21, 22}

\* C38: the body font size is 8, 7 when the criteria count is greater than 6
\* and 6 when it is greater than 8, then one less (not below 5) when the row
\* count is greater than 20; it is non-increasing in both counts; the initial
\* header size is the body size plus one and at most 10, and the header size
\* the fit search returns lies between the floor 6 and the initial size.
C38_FontSizes ==
  /\ report # NoReport =>
       LET by_criteria == IF ReportCriteriaCount > 8 THEN 6
                          ELSE IF ReportCriteriaCount > 6 THEN 7 ELSE 8
           reduced == IF by_criteria - 1 < 5 THEN 5 ELSE by_criteria - 1
       IN  /\ report.body_font
                = (IF ReportRowCount > 20 THEN reduced ELSE by_criteria)
           /\ report.max_size = report.body_font + 1
           /\ report.max_size <= 10
           /\ report.header_font >= 6
           /\ report.header_font <= report.max_size
  /\ \A c1 \in FontCriteriaCounts, c2 \in FontCriteriaCounts :
        \A r1 \in FontRowCounts, r2 \in FontRowCounts :
           (c1 <= c2 /\ r1 <= r2) =>
              body_font_size(c2, r2) <= body_font_size(c1, r1)

\* a report with seven criteria and more than 20 rows has body size 6 and
\* header size between 6 and 7
C38_Witness ==
  /\ report # NoReport
  /\ ReportCriteriaCount = 7
  /\ ReportRowCount > 20
  /\ report.body_font = 6
  /\ report.header_font \in {6, 7}

----------------------------------------------------------------------------
\* sum of the widths of the header columns 1 .. n of the report on display,
\* in d-th parts of the unit of width; d is a multiple of the denominator of
\* every width
RECURSIVE ColumnsWidth(_, _)
ColumnsWidth(n, d) ==
  IF n = 0 THEN 0
  ELSE ColumnsWidth(n - 1, d)
         + report.header[n].width.n * (d \div report.header[n].width.d)

\* the printable width of the page of the report on display
PrintableWidth == page_width(report.orientation)

\* C39: the column geometry fits the page width: the rank, contestant and
\* total columns are 10, 40 and 22 wide, every criteria column is
\* max(18, remaining / criteriaCount) wide, and the sum of all column widths
\* is not greater than the printable page width, for any number of criteria.
C39_ColumnsFitPage ==
  report # NoReport =>
    LET last == Len(report.header)
        remaining == FracSub(PrintableWidth, mm(10 + 40 + 22, 1))
        share == FracDiv(remaining,
                         Frac(IF last > 3 THEN last - 3 ELSE 1, 1))
    IN  /\ last = ReportCriteriaCount + 3
        /\ report.header[1].width = mm(10, 1)
        /\ report.header[2].width = mm(40, 1)
        /\ report.header[last].width = mm(22, 1)
        /\ \A i \in 3 .. last - 1 :
              report.header[i].width
                = (IF FracLess(share, mm(18, 1)) THEN mm(18, 1) ELSE share)
        /\ \A i \in 1 .. last :
              (PrintableWidth.d * (IF last > 3 THEN last - 3 ELSE 1))
                % report.header[i].width.d = 0
        /\ ColumnsWidth(last, PrintableWidth.d
                                * (IF last > 3 THEN last - 3 ELSE 1))
             <= PrintableWidth.n * (IF last > 3 THEN last - 3 ELSE 1)

----------------------------------------------------------------------------
\* an iteration of the truncation loop removes the last character of a text
\* that is not empty; the loop returns the rest followed by the marker, when
\* that fits or nothing is left
TrimStepRemovesOne ==
  layout.pc = "trim" =>
    \/ /\ layout'.pc = "trim"
       /\ layout.trimmed # <<>>
       /\ layout.trimmed = layout'.trimmed \o <<layout.trimmed[Len(layout.trimmed)]>>
    \/ /\ layout'.pc = "returned"
       /\ layout'.result = layout.trimmed \o <<".", ".", ".">>
       /\ \/ layout.trimmed = <<>>
          \/ units(layout'.result, layout.font.style) * layout.font.size * 127
               * layout.max_width.d <= layout.max_width.n

\* the sizes between lo and hi at which every label passes the fit test
FittingSizes(labels, lo, hi) == {z \in lo .. hi : header_fits(labels, z)}

\* an iteration of the fit search goes from a size that does not fit to the
\* next smaller size, not below the floor; the search returns the largest
\* size at which all labels fit, or the floor if there is none
FitStepNextSize ==
  layout.pc = "fit" =>
    \/ /\ layout'.pc = "fit"
       /\ layout'.size = layout.size - 1
       /\ layout'.size >= layout.min_size
       /\ ~ header_fits(layout.labels, layout.size)
    \/ /\ layout'.pc = "returned"
       /\ LET fitting == FittingSizes(layout.labels, layout.min_size,
                                      layout.max_size)
          IN  IF fitting = {} THEN layout'.result = layout.min_size
              ELSE /\ layout'.result \in fitting
                   /\ \A z \in fitting : z <= layout'.result

\* C40: the layout searches always terminate: the header-fit search tries
\* each size from the maximum down to the floor at most once and returns the
\* largest size at which all labels pass the fit test (or the floor), and the
\* truncation loop removes one character per iteration and stops at the
\* latest when the text is empty; a loop that has started returns.
C40_LayoutLoopsTerminate ==
  /\ [][TrimStepRemovesOne /\ FitStepNextSize]_vars
  /\ (layout.pc \in {"trim", "fit"}) ~> (layout.pc = "returned")

\* the truncation loop has returned after five or more iterations, with a
\* prefix that is not empty
C40_Witness ==
  /\ layout.pc = "returned"
  /\ layout.loop = "ellipsize"
  /\ Len(layout.result) > 3
  /\ Len(layout.result) - 3 + 5 <= Len(layout.text)

====
